---- MODULE Spec2Model ----
(***************************************************************************)
(* Command classification and dispatch of the JARVIS assistant             *)
(* (src/jarvis.py: SmartCommandProcessor, EnhancedJarvisAssistant).        *)
(*                                                                         *)
(* A Python str is modelled as a sequence of one-character strings, so     *)
(* that strip(), lower(), startswith(), slicing and the regular            *)
(* expressions of the rule table are computed character by character.      *)
(***************************************************************************)
EXTENDS Integers, Sequences, FiniteSets, TLC

(***************************************************************************)
(* Characters                                                              *)
(***************************************************************************)
Uppers ==
  <<"A","B","C","D","E","F","G","H","I","J","K","L","M",
    "N","O","P","Q","R","S","T","U","V","W","X","Y","Z">>

Lowers ==
  <<"a","b","c","d","e","f","g","h","i","j","k","l","m",
    "n","o","p","q","r","s","t","u","v","w","x","y","z">>

Digits == {"0","1","2","3","4","5","6","7","8","9"}

Letters == {Lowers[i] : i \in 1..26} \cup {Uppers[i] : i \in 1..26}

\* str.isspace(): the characters str.strip() removes and \s matches
Spaces == {" ", "\t", "\n", "\r", "\f"}

IsSpace(c) == c \in Spaces

\* the characters \w matches (alphanumerics and the underscore)
WordChars == Letters \cup Digits \cup {"_"}

IsWordChar(c) == c \in WordChars

\* the characters . matches without re.DOTALL
IsDotChar(c) == c # "\n"

\* the lower-case letter of every upper-case letter
LowerOf == [c \in {Uppers[i] : i \in 1..26} |->
              Lowers[CHOOSE i \in 1..26 : Uppers[i] = c]]

LowerChar(c) == IF c \in DOMAIN LowerOf THEN LowerOf[c] ELSE c

(***************************************************************************)
(* Strings                                                                 *)
(***************************************************************************)
\* s[i:j] with 1-based, inclusive bounds; empty when j < i
Slice(s, i, j) == [k \in 1..(j - i + 1) |-> s[i + k - 1]]

\* str.lower()
lower(s) == [k \in 1..Len(s) |-> LowerChar(s[k])]

\* index of the first / last non-space character, 0 when there is none
FirstNonSpace(s) ==
  IF \E k \in 1..Len(s) : ~IsSpace(s[k])
  THEN CHOOSE k \in 1..Len(s) :
         /\ ~IsSpace(s[k])
         /\ \A j \in 1..(k - 1) : IsSpace(s[j])
  ELSE 0

LastNonSpace(s) ==
  IF \E k \in 1..Len(s) : ~IsSpace(s[k])
  THEN CHOOSE k \in 1..Len(s) :
         /\ ~IsSpace(s[k])
         /\ \A j \in (k + 1)..Len(s) : IsSpace(s[j])
  ELSE 0

\* str.strip()
strip(s) ==
  IF FirstNonSpace(s) = 0 THEN <<>>
  ELSE Slice(s, FirstNonSpace(s), LastNonSpace(s))

\* str.startswith(prefix)
startswith(s, prefix) ==
  /\ Len(prefix) <= Len(s)
  /\ \A k \in 1..Len(prefix) : s[k] = prefix[k]

\* " ".join(words)
RECURSIVE JoinWith(_, _)
JoinWith(words, sep) ==
  IF Len(words) = 0 THEN <<>>
  ELSE IF Len(words) = 1 THEN words[1]
  ELSE words[1] \o sep \o JoinWith(Tail(words), sep)

(***************************************************************************)
(* Regular expressions of the rule table                                   *)
(*                                                                         *)
(* Every pattern of command_patterns has the shape                         *)
(*     [^] [\b] [(] phrase | phrase | ... [)] [\b] [\s+(.+)]               *)
(* where a phrase is a list of literal words joined by \s+.  A pattern is  *)
(* the record of these parts; search() interprets it as the re module      *)
(* does (leftmost start, alternatives in order, greedy \s+ and .+ with     *)
(* backtracking, re.IGNORECASE).                                           *)
(***************************************************************************)
\* the literal words of the patterns and prefixes
W ==
  [
    what |-> <<"w","h","a","t">>,
    time |-> <<"t","i","m","e">>,
    current |-> <<"c","u","r","r","e","n","t">>,
    is |-> <<"i","s">>,
    tell |-> <<"t","e","l","l">>,
    me |-> <<"m","e">>,
    the |-> <<"t","h","e">>,
    date |-> <<"d","a","t","e">>,
    today |-> <<"t","o","d","a","y">>,
    weather |-> <<"w","e","a","t","h","e","r">>,
    temperature |-> <<"t","e","m","p","e","r","a","t","u","r","e">>,
    forecast |-> <<"f","o","r","e","c","a","s","t">>,
    climate |-> <<"c","l","i","m","a","t","e">>,
    search |-> <<"s","e","a","r","c","h">>,
    for |-> <<"f","o","r">>,
    look |-> <<"l","o","o","k">>,
    up |-> <<"u","p">>,
    find |-> <<"f","i","n","d">>,
    information |-> <<"i","n","f","o","r","m","a","t","i","o","n">>,
    about |-> <<"a","b","o","u","t">>,
    who |-> <<"w","h","o">>,
    where |-> <<"w","h","e","r","e">>,
    when |-> <<"w","h","e","n">>,
    how |-> <<"h","o","w">>,
    define |-> <<"d","e","f","i","n","e">>,
    explain |-> <<"e","x","p","l","a","i","n">>,
    describe |-> <<"d","e","s","c","r","i","b","e">>,
    open |-> <<"o","p","e","n">>,
    go |-> <<"g","o">>,
    to |-> <<"t","o">>,
    navigate |-> <<"n","a","v","i","g","a","t","e">>,
    hello |-> <<"h","e","l","l","o">>,
    hi |-> <<"h","i">>,
    hey |-> <<"h","e","y">>,
    greetings |-> <<"g","r","e","e","t","i","n","g","s">>,
    good |-> <<"g","o","o","d">>,
    morning |-> <<"m","o","r","n","i","n","g">>,
    afternoon |-> <<"a","f","t","e","r","n","o","o","n">>,
    evening |-> <<"e","v","e","n","i","n","g">>,
    thank |-> <<"t","h","a","n","k">>,
    you |-> <<"y","o","u">>,
    thanks |-> <<"t","h","a","n","k","s">>,
    appreciate |-> <<"a","p","p","r","e","c","i","a","t","e">>,
    grateful |-> <<"g","r","a","t","e","f","u","l">>,
    are |-> <<"a","r","e">>,
    status |-> <<"s","t","a","t","u","s">>,
    condition |-> <<"c","o","n","d","i","t","i","o","n">>,
    state |-> <<"s","t","a","t","e">>,
    clear |-> <<"c","l","e","a","r">>,
    screen |-> <<"s","c","r","e","e","n">>,
    display |-> <<"d","i","s","p","l","a","y">>,
    clean |-> <<"c","l","e","a","n">>
  ]

\* anchor: starts with ^; bounded: enclosed in \b ... \b; capture: the
\* alternation is a group; rest: ends with \s+(.+)
Regex(anchor, bounded, capture, rest, alts) ==
  [anchor |-> anchor, bounded |-> bounded, capture |-> capture,
   rest |-> rest, alts |-> alts]

\* \b between text[k-1] and text[k]
AtBoundary(text, k) ==
  LET before == k > 1 /\ IsWordChar(text[k - 1])
      after  == k <= Len(text) /\ IsWordChar(text[k])
  IN  before # after

\* number of whitespace characters from position i on
RECURSIVE SpaceRun(_, _)
SpaceRun(text, i) ==
  IF i <= Len(text) /\ IsSpace(text[i]) THEN 1 + SpaceRun(text, i + 1) ELSE 0

\* number of characters . matches from position i on
RECURSIVE DotRun(_, _)
DotRun(text, i) ==
  IF i <= Len(text) /\ IsDotChar(text[i]) THEN 1 + DotRun(text, i + 1) ELSE 0

\* a literal word at position i, ignoring case: the position after it, or 0
MatchWord(text, i, w) ==
  IF /\ i + Len(w) - 1 <= Len(text)
     /\ \A k \in 1..Len(w) : LowerChar(text[i + k - 1]) = w[k]
  THEN i + Len(w)
  ELSE 0

\* word \s+ word \s+ ... at position i: the position after it, or 0
RECURSIVE MatchPhrase(_, _, _)
MatchPhrase(text, i, phrase) ==
  LET e == MatchWord(text, i, phrase[1])
  IN  IF e = 0 THEN 0
      ELSE IF Len(phrase) = 1 THEN e
      ELSE IF SpaceRun(text, e) = 0 THEN 0
      ELSE MatchPhrase(text, e + SpaceRun(text, e), Tail(phrase))

\* \s(.+) instead of \s+(.+): one whitespace character, then the group
MatchRestOneSpace(text, e) ==
  IF /\ e + 1 <= Len(text)
     /\ IsSpace(text[e])
     /\ IsDotChar(text[e + 1])
  THEN e + 1
  ELSE 0

\* \s*(.*) instead of \s+(.+): the whitespace and the group may be empty
MatchRestOptional(text, e) == e + SpaceRun(text, e)

\* \s+(.+) at position e: the first position of the group, or 0.  \s+ takes
\* the whole run of whitespace and gives characters back until . can match.
MatchRest(text, e) ==
  LET n    == SpaceRun(text, e)
      good == {k \in 1..n : e + k <= Len(text) /\ IsDotChar(text[e + k])}
  IN  IF good = {} THEN 0
      ELSE e + (CHOOSE k \in good : \A j \in good : j <= k)

NoMatch == [matched |-> FALSE, groups |-> <<>>]

\* one alternative of the pattern tried at position i
MatchAlt(p, text, i, phrase) ==
  LET e == MatchPhrase(text, i, phrase)
      g == IF e # 0 /\ p.rest THEN MatchRest(text, e) ELSE 0
      head == IF p.capture THEN <<Slice(text, i, e - 1)>> ELSE <<>>
  IN  IF e = 0 THEN NoMatch
      ELSE IF p.bounded /\ ~AtBoundary(text, e) THEN NoMatch
      ELSE IF ~p.rest THEN [matched |-> TRUE, groups |-> head]
      ELSE IF g = 0 THEN NoMatch
      ELSE [matched |-> TRUE,
            groups |-> Append(head, Slice(text, g, g + DotRun(text, g) - 1))]

\* the pattern tried at position i: its alternatives in order
RECURSIVE MatchAlts(_, _, _, _)
MatchAlts(p, text, i, k) ==
  IF k > Len(p.alts) THEN NoMatch
  ELSE IF MatchAlt(p, text, i, p.alts[k]).matched
       THEN MatchAlt(p, text, i, p.alts[k])
       ELSE MatchAlts(p, text, i, k + 1)

MatchAt(p, text, i) ==
  IF p.bounded /\ ~AtBoundary(text, i) THEN NoMatch
  ELSE MatchAlts(p, text, i, 1)

\* pattern.search(text): the match at the leftmost position that has one
RECURSIVE SearchFrom(_, _, _)
SearchFrom(p, text, i) ==
  IF i > Len(text) + 1 THEN NoMatch
  ELSE IF MatchAt(p, text, i).matched THEN MatchAt(p, text, i)
  ELSE IF p.anchor THEN NoMatch
  ELSE SearchFrom(p, text, i + 1)

search(p, text) == SearchFrom(p, text, 1)

(***************************************************************************)
(* SmartCommandProcessor                                                   *)
(***************************************************************************)
\* self.command_patterns: a dict, iterated in the order of its keys' insertion
command_patterns ==
  << [command  |-> "time",
      patterns |-> <<
        \* \b(what\s+time|current\s+time|time\s+is|tell\s+me\s+the\s+time)\b
        Regex(FALSE, TRUE, TRUE, FALSE,
              << <<W.what, W.time>>, <<W.current, W.time>>, <<W.time, W.is>>,
                 <<W.tell, W.me, W.the, W.time>> >>),
        \* \btime\b
        Regex(FALSE, TRUE, FALSE, FALSE, << <<W.time>> >>) >>],
     [command  |-> "date",
      patterns |-> <<
        \* \b(what\s+date|current\s+date|date\s+is|today\s+is)\b
        Regex(FALSE, TRUE, TRUE, FALSE,
              << <<W.what, W.date>>, <<W.current, W.date>>, <<W.date, W.is>>,
                 <<W.today, W.is>> >>),
        \* \bdate\b
        Regex(FALSE, TRUE, FALSE, FALSE, << <<W.date>> >>) >>],
     [command  |-> "weather",
      patterns |-> <<
        \* \b(weather|temperature|forecast|climate)\b
        Regex(FALSE, TRUE, TRUE, FALSE,
              << <<W.weather>>, <<W.temperature>>, <<W.forecast>>,
                 <<W.climate>> >>) >>],
     [command  |-> "search",
      patterns |-> <<
        \* ^(search\s+for|look\s+up|find\s+information\s+about|tell\s+me\s+about)\s+(.+)
        Regex(TRUE, FALSE, TRUE, TRUE,
              << <<W.search, W.for>>, <<W.look, W.up>>,
                 <<W.find, W.information, W.about>>,
                 <<W.tell, W.me, W.about>> >>),
        \* ^(what\s+is|who\s+is|where\s+is|when\s+is|how\s+is)\s+(.+)
        Regex(TRUE, FALSE, TRUE, TRUE,
              << <<W.what, W.is>>, <<W.who, W.is>>, <<W.where, W.is>>,
                 <<W.when, W.is>>, <<W.how, W.is>> >>),
        \* ^(define|explain|describe)\s+(.+)
        Regex(TRUE, FALSE, TRUE, TRUE,
              << <<W.define>>, <<W.explain>>, <<W.describe>> >>) >>],
     [command  |-> "open_website",
      patterns |-> <<
        \* ^open\s+(.+)
        Regex(TRUE, FALSE, FALSE, TRUE, << <<W.open>> >>),
        \* ^go\s+to\s+(.+)
        Regex(TRUE, FALSE, FALSE, TRUE, << <<W.go, W.to>> >>),
        \* ^navigate\s+to\s+(.+)
        Regex(TRUE, FALSE, FALSE, TRUE, << <<W.navigate, W.to>> >>) >>],
     [command  |-> "greeting",
      patterns |-> <<
        \* \b(hello|hi|hey|greetings|good\s+morning|good\s+afternoon|good\s+evening)\b
        Regex(FALSE, TRUE, TRUE, FALSE,
              << <<W.hello>>, <<W.hi>>, <<W.hey>>, <<W.greetings>>,
                 <<W.good, W.morning>>, <<W.good, W.afternoon>>,
                 <<W.good, W.evening>> >>) >>],
     [command  |-> "thanks",
      patterns |-> <<
        \* \b(thank\s+you|thanks|appreciate|grateful)\b
        Regex(FALSE, TRUE, TRUE, FALSE,
              << <<W.thank, W.you>>, <<W.thanks>>, <<W.appreciate>>,
                 <<W.grateful>> >>) >>],
     [command  |-> "status",
      patterns |-> <<
        \* \b(how\s+are\s+you|status|condition|state)\b
        Regex(FALSE, TRUE, TRUE, FALSE,
              << <<W.how, W.are, W.you>>, <<W.status>>, <<W.condition>>,
                 <<W.state>> >>) >>],
     [command  |-> "clear",
      patterns |-> <<
        \* \b(clear\s+screen|clear\s+display|clean\s+screen)\b
        Regex(FALSE, TRUE, TRUE, FALSE,
              << <<W.clear, W.screen>>, <<W.clear, W.display>>,
                 <<W.clean, W.screen>> >>) >>] >>

\* a compilation that puts the anchored search patterns before the keyword
\* patterns
CompileSearchFirst(patterns) ==
  LET IsSearch(e) == e.command = "search"
  IN  SelectSeq(patterns, IsSearch)
        \o SelectSeq(patterns, LAMBDA e : ~IsSearch(e))

\* the loop that fills self.compiled_patterns: one entry per command, in the
\* order of command_patterns.items(), each with its patterns in list order
Compile(patterns) ==
  [i \in 1..Len(patterns) |->
     [command  |-> patterns[i].command,
      patterns |-> [j \in 1..Len(patterns[i].patterns) |->
                      patterns[i].patterns[j]]]]

\* Python values a payload can be: None, a tuple of str, a str
None     == [type |-> "NoneType", value |-> <<>>]
Tuple(g) == [type |-> "tuple", value |-> g]
Str(s)   == [type |-> "str", value |-> s]

\* truth value of a payload: None, () and "" are false
Truthy(v) == v.type # "NoneType" /\ Len(v.value) > 0

\* the loops without the return inside them: the last pattern that matches
\* decides
RECURSIVE ClassifyFromLast(_, _, _, _)
ClassifyFromLast(table, text, i, j) ==
  IF i > Len(table) THEN [command |-> "general", payload |-> Str(text)]
  ELSE IF j > Len(table[i].patterns)
       THEN ClassifyFromLast(table, text, i + 1, 1)
  ELSE LET match == search(table[i].patterns[j], text)
           later == ClassifyFromLast(table, text, i, j + 1)
       IN  IF later.command # "general" \/ ~match.matched THEN later
           ELSE [command |-> table[i].command,
                 payload |-> IF Len(match.groups) > 0
                             THEN Tuple(match.groups) ELSE None]

\* the loops returning match.groups() as it is, without "if groups else None"
RECURSIVE ClassifyFromGroups(_, _, _, _)
ClassifyFromGroups(table, text, i, j) ==
  IF i > Len(table) THEN [command |-> "general", payload |-> Str(text)]
  ELSE IF j > Len(table[i].patterns)
       THEN ClassifyFromGroups(table, text, i + 1, 1)
  ELSE LET match == search(table[i].patterns[j], text)
       IN  IF match.matched
           THEN [command |-> table[i].command,
                 payload |-> Tuple(match.groups)]
           ELSE ClassifyFromGroups(table, text, i, j + 1)

\* the loops of classify_command from pattern j of command i on: the first
\* pattern that matches returns
RECURSIVE ClassifyFrom(_, _, _, _)
ClassifyFrom(table, text, i, j) ==
  IF i > Len(table) THEN [command |-> "general", payload |-> Str(text)]
  ELSE IF j > Len(table[i].patterns) THEN ClassifyFrom(table, text, i + 1, 1)
  ELSE LET match == search(table[i].patterns[j], text)
       IN  IF match.matched
           THEN [command |-> table[i].command,
                 payload |-> IF Len(match.groups) > 0
                             THEN Tuple(match.groups) ELSE None]
           ELSE ClassifyFrom(table, text, i, j + 1)

\* classify_command without its last line: nothing is returned when no
\* pattern matches
classify_command_NoFallback(table, text) ==
  LET found == ClassifyFrom(table, lower(strip(text)), 1, 1)
  IN  IF found.command = "general" THEN None ELSE found

\* classify_command that trims the text and does not lower-case it
classify_command_NoLower(table, text) == ClassifyFrom(table, strip(text), 1, 1)

\* classify_command that falls back to the text as it was passed in
classify_command_RawFallback(table, text) ==
  LET found == ClassifyFrom(table, lower(strip(text)), 1, 1)
  IN  IF found.command = "general"
      THEN [command |-> "general", payload |-> Str(text)]
      ELSE found

classify_command(table, text) ==
  ClassifyFrom(table, lower(strip(text)), 1, 1)

\* the prefixes of extract_search_query, in list order
prefixes ==
  << JoinWith(<<W.search, W.for>>, <<" ">>),
     JoinWith(<<W.look, W.up>>, <<" ">>),
     JoinWith(<<W.find, W.information, W.about>>, <<" ">>),
     JoinWith(<<W.tell, W.me, W.about>>, <<" ">>),
     JoinWith(<<W.what, W.is>>, <<" ">>),
     JoinWith(<<W.who, W.is>>, <<" ">>),
     JoinWith(<<W.where, W.is>>, <<" ">>),
     JoinWith(<<W.when, W.is>>, <<" ">>),
     JoinWith(<<W.how, W.is>>, <<" ">>),
     W.define, W.explain, W.describe >>

\* the prefix loop returning text[len(prefix):] as it is, without strip()
RECURSIVE StripPrefixFromUntrimmed(_, _, _)
StripPrefixFromUntrimmed(text, text_lower, k) ==
  IF k > Len(prefixes) THEN text
  ELSE IF startswith(text_lower, prefixes[k])
       THEN Slice(text, Len(prefixes[k]) + 1, Len(text))
       ELSE StripPrefixFromUntrimmed(text, text_lower, k + 1)

\* the prefix loop: the first prefix text_lower starts with is cut off text
RECURSIVE StripPrefixFrom(_, _, _)
StripPrefixFrom(text, text_lower, k) ==
  IF k > Len(prefixes) THEN text
  ELSE IF startswith(text_lower, prefixes[k])
       THEN strip(Slice(text, Len(prefixes[k]) + 1, Len(text)))
       ELSE StripPrefixFrom(text, text_lower, k + 1)

\* groups[0] instead of groups[-1]
FirstOf(groups) ==
  IF groups.type = "tuple" THEN groups.value[1] ELSE <<groups.value[1]>>

\* groups[-1] of a tuple is its last str, of a str its last character
LastOf(groups) ==
  IF groups.type = "tuple" THEN groups.value[Len(groups.value)]
  ELSE <<groups.value[Len(groups.value)]>>

extract_search_query(text, groups) ==
  IF Truthy(groups) THEN strip(LastOf(groups))
  ELSE StripPrefixFrom(text, lower(text), 1)

(***************************************************************************)
(* EnhancedJarvisAssistant.process_command                                 *)
(***************************************************************************)
Invoke(handler, args) == [handler |-> handler, args |-> args]

\* the chain with its last branch taking the payload: the general handler
\* gets extracted_data, the normalized text, not the command
DispatchPayload(command_type, extracted_data, command) ==
  IF command_type = "time" THEN <<Invoke("handle_time_command", <<>>)>>
  ELSE IF command_type = "date" THEN <<Invoke("handle_date_command", <<>>)>>
  ELSE IF command_type = "weather"
    THEN <<Invoke("handle_weather_command", <<command>>)>>
  ELSE IF command_type = "search"
    THEN <<Invoke("handle_search_command",
                  <<extract_search_query(command, extracted_data)>>)>>
  ELSE IF command_type = "open_website"
    THEN IF Truthy(extracted_data)
         THEN <<Invoke("handle_open_website",
                       <<IF extracted_data.type = "tuple"
                         THEN extracted_data.value[1]
                         ELSE extracted_data.value>>)>>
         ELSE <<>>
  ELSE IF command_type = "greeting" THEN <<Invoke("handle_greeting", <<>>)>>
  ELSE IF command_type = "thanks" THEN <<Invoke("handle_thanks", <<>>)>>
  ELSE IF command_type = "status" THEN <<Invoke("handle_status_query", <<>>)>>
  ELSE IF command_type = "clear" THEN <<Invoke("handle_clear_screen", <<>>)>>
  ELSE <<Invoke("handle_general_query", <<extracted_data.value>>)>>

\* the chain written with if in place of elif from greeting on: the else
\* belongs to the last if alone, so it also runs after an earlier branch
DispatchIfs(command_type, extracted_data, command) ==
  LET chain ==
        IF command_type = "time" THEN <<Invoke("handle_time_command", <<>>)>>
        ELSE IF command_type = "date"
          THEN <<Invoke("handle_date_command", <<>>)>>
        ELSE IF command_type = "weather"
          THEN <<Invoke("handle_weather_command", <<command>>)>>
        ELSE IF command_type = "search"
          THEN <<Invoke("handle_search_command",
                        <<extract_search_query(command, extracted_data)>>)>>
        ELSE IF command_type = "open_website" /\ Truthy(extracted_data)
          THEN <<Invoke("handle_open_website",
                        <<IF extracted_data.type = "tuple"
                          THEN extracted_data.value[1]
                          ELSE extracted_data.value>>)>>
        ELSE <<>>
      greeting == IF command_type = "greeting"
                  THEN <<Invoke("handle_greeting", <<>>)>> ELSE <<>>
      thanks   == IF command_type = "thanks"
                  THEN <<Invoke("handle_thanks", <<>>)>> ELSE <<>>
      status   == IF command_type = "status"
                  THEN <<Invoke("handle_status_query", <<>>)>> ELSE <<>>
      clear    == IF command_type = "clear"
                  THEN <<Invoke("handle_clear_screen", <<>>)>>
                  ELSE <<Invoke("handle_general_query", <<command>>)>>
  IN  chain \o greeting \o thanks \o status \o clear

\* the if/elif chain of process_command: the handler calls it makes for a
\* classified command, in order
Dispatch(command_type, extracted_data, command) ==
  IF command_type = "time" THEN <<Invoke("handle_time_command", <<>>)>>
  ELSE IF command_type = "date" THEN <<Invoke("handle_date_command", <<>>)>>
  ELSE IF command_type = "weather"
    THEN <<Invoke("handle_weather_command", <<command>>)>>
  ELSE IF command_type = "search"
    THEN <<Invoke("handle_search_command",
                  <<extract_search_query(command, extracted_data)>>)>>
  ELSE IF command_type = "open_website"
    THEN IF Truthy(extracted_data)
         THEN <<Invoke("handle_open_website",
                       <<IF extracted_data.type = "tuple"
                         THEN extracted_data.value[1]
                         ELSE extracted_data.value>>)>>
         ELSE <<>>
  ELSE IF command_type = "greeting" THEN <<Invoke("handle_greeting", <<>>)>>
  ELSE IF command_type = "thanks" THEN <<Invoke("handle_thanks", <<>>)>>
  ELSE IF command_type = "status" THEN <<Invoke("handle_status_query", <<>>)>>
  ELSE IF command_type = "clear" THEN <<Invoke("handle_clear_screen", <<>>)>>
  ELSE <<Invoke("handle_general_query", <<command>>)>>

\* the handler calls process_command makes for a command, in order
process_command(table, command) ==
  LET classified == classify_command(table, command)
  IN  Dispatch(classified.command, classified.payload, command)

(***************************************************************************)
(* EnhancedJarvisAssistant: messages, threads and handlers                 *)
(*                                                                         *)
(* The assistant is a record of the fields the handlers read and write:    *)
(*   message_queue    the PriorityQueue of (priority, timestamp, sender,   *)
(*                    message, thinking), in the order of the put calls    *)
(*   chat_area        the transcript: the entries inserted, in order       *)
(*   voice_indicator  the state the indicator label shows                  *)
(*   is_listening     the flag the listen thread polls                     *)
(*   after            the callbacks given to root.after(0, ...), in order  *)
(*   threads          the worker threads started and not yet finished      *)
(*   tts              EnhancedTTS: available, speech_queue, speaking       *)
(*   ollama           MODULES['ollama']['available']                       *)
(*   opened           what webbrowser.open was called with                 *)
(*   clock            what datetime.now() returns next                     *)
(*   spawned          the number of threads started so far                 *)
(*   inputs           the number of user inputs so far                     *)
(*   ran              for every web search and AI chat, the thread it ran  *)
(*                    on                                                   *)
(*   mutators         the threads that have inserted into or deleted from  *)
(*                    chat_area                                            *)
(* A message is its fixed text, the value formatted into it (about) and    *)
(* the worker thread whose outcome it reports (of, 0 for none).            *)
(***************************************************************************)
Text(text) == [text |-> text, about |-> <<>>, of |-> 0]

TextAbout(text, about) == [text |-> text, about |-> about, of |-> 0]

\* no call, or no value yet
NotCalled == [op |-> "none"]

\* the thread that runs the Tk main loop
UI == "ui"

\* pygame.mixer.music is not busy
NotPlaying ==
  [text |-> [cleaned |-> [text |-> "", about |-> <<>>, of |-> 0]], call |-> 0]

\* self.message_queue.put((priority, timestamp, sender, message, thinking)):
\* datetime.now() is read at every call, and a later call reads a later time
add_message(self, sender, message, priority, thinking) ==
  [self EXCEPT
     !.message_queue =
        Append(@, [priority |-> priority, timestamp |-> self.clock,
                   sender |-> sender, message |-> message,
                   thinking |-> thinking]),
     !.clock = @ + 1]

update_voice_indicator(self, state) ==
  IF state \in {"idle", "listening", "processing", "speaking"}
  THEN [self EXCEPT !.voice_indicator = state]
  ELSE self

\* threading.Thread(target=..., daemon=True).start()
StartThread(self, target, arg) ==
  [self EXCEPT
     !.threads = @ \cup {[target |-> target, id |-> self.spawned + 1,
                          arg |-> arg, pc |-> "started"]},
     !.spawned = @ + 1]

\* EnhancedTTS.speak(text) with interrupt=False
\* text.strip() is empty
Blank(text) == text.text = "" /\ Len(strip(text.about)) = 0

\* EnhancedTTS._clean_text: runs of . ! ? are shortened and abbreviations
\* written out; the result is kept as what was made of the text
_clean_text(text) == [cleaned |-> text]

\* EnhancedTTS.stop_speaking: the flag is cleared and pygame.mixer.music
\* stopped
stop_speaking(self) ==
  [self EXCEPT !.tts.speaking = FALSE, !.tts.music = NotPlaying]

\* EnhancedTTS.speak with interrupt=False; call numbers the calls that
\* queue a text
speak(self, text) ==
  IF Blank(text) \/ ~self.tts.available THEN self
  ELSE [self EXCEPT
          !.tts.speech_queue =
             Append(@, [text |-> _clean_text(text),
                        call |-> self.tts.spoken + 1]),
          !.tts.spoken = @ + 1]

\* the length conversation_history is cut back to
history_limit == 50

\* save_conversation that drops the entry just appended on overflow
save_conversation_DroppingNewest(self, speaker, message, message_type) ==
  LET entry == [speaker |-> speaker, message |-> message,
                type |-> message_type]
      appended == Append(self.conversation_history, entry)
  IN  [self EXCEPT !.conversation_history =
         IF Len(appended) > history_limit
         THEN SubSeq(appended, 1, Len(appended) - 1) ELSE appended]

\* save_conversation: the part that keeps the entry in memory; the row of
\* the database and the timestamp of the entry are left out
save_conversation(self, speaker, message, message_type) ==
  LET entry == [speaker |-> speaker, message |-> message,
                type |-> message_type]
      appended == Append(self.conversation_history, entry)
  IN  [self EXCEPT !.conversation_history =
         IF Len(appended) > history_limit THEN Tail(appended) ELSE appended]

add_jarvis_response(self, response) ==
  LET queued == save_conversation(
                  add_message(self, "JARVIS", response, 2, FALSE),
                  "JARVIS", response, "text")
      shown  == update_voice_indicator(queued, "speaking")
  IN  IF shown.tts.available
      THEN StartThread(speak(shown, response), "reset_indicator", <<>>)
      ELSE shown

\* the names EnhancedWebAccess.open_website knows
sites ==
  { <<"g","o","o","g","l","e">>, <<"y","o","u","t","u","b","e">>,
    <<"f","a","c","e","b","o","o","k">>, <<"t","w","i","t","t","e","r">>,
    <<"x">>, <<"g","i","t","h","u","b">>,
    <<"w","i","k","i","p","e","d","i","a">>, <<"a","m","a","z","o","n">>,
    <<"n","e","t","f","l","i","x">>, <<"r","e","d","d","i","t">>,
    <<"s","t","a","c","k","o","v","e","r","f","l","o","w">>,
    <<"g","m","a","i","l">>, <<"o","u","t","l","o","o","k">>,
    <<"l","i","n","k","e","d","i","n">> }

\* EnhancedWebAccess.open_website(site_name): the browser is opened in every
\* branch; the record holds the assistant after it and the text returned
open_website(self, site_name) ==
  LET site_lower == strip(lower(site_name))
      how == IF site_lower \in sites THEN "sites"
             ELSE IF startswith(site_lower, <<"h","t","t","p">>) THEN "url"
             ELSE "constructed"
  IN  [self   |-> [self EXCEPT !.opened = @ \cup {[how |-> how,
                                                   site_name |-> site_name,
                                                   site |-> site_lower]}],
       result |-> TextAbout(IF how = "constructed" THEN "Attempting to open"
                            ELSE "Opening", site_name)]

\* what EnhancedWebAccess.search_web can return: an answer, or one of the
\* texts its except clauses return
SearchResults ==
  { "According to",
    "I encountered a network error while searching for information.",
    "I encountered an error while searching for information." }

\* self.web_access.search_web(query) running on a thread
search_web(self, query, thread) ==
  [self EXCEPT !.ran = @ \cup {[op |-> "search_web", about |-> query,
                                thread |-> thread]}]

\* the number of \w characters from position i on
RECURSIVE WordRun(_, _)
WordRun(text, i) ==
  IF i <= Len(text) /\ IsWordChar(text[i]) THEN 1 + WordRun(text, i + 1) ELSE 0

\* \w+(?:\s+\w+)* from the first character of a word on: the position after it
RECURSIVE WordsEnd(_, _)
WordsEnd(text, i) ==
  LET e == i + WordRun(text, i)
      n == SpaceRun(text, e)
  IN  IF n > 0 /\ WordRun(text, e + n) > 0 THEN WordsEnd(text, e + n) ELSE e

\* re.search(r'\bin\s+(\w+(?:\s+\w+)*)', text) from position i on: group 1 of
\* the leftmost match, or None
RECURSIVE LocationFrom(_, _)
LocationFrom(text, i) ==
  IF i > Len(text) THEN None
  ELSE LET e == MatchWord(text, i, <<"i","n">>)
           g == e + SpaceRun(text, e)
       IN  IF /\ AtBoundary(text, i)
              /\ e # 0
              /\ SpaceRun(text, e) > 0
              /\ WordRun(text, g) > 0
           THEN Str(Slice(text, g, WordsEnd(text, g) - 1))
           ELSE LocationFrom(text, i + 1)

handle_time_command(self) ==
  add_jarvis_response(self, Text("The current time is"))

handle_date_command(self) == add_jarvis_response(self, Text("Today is"))

\* the search runs in the call, on the thread that called the handler
handle_weather_command(self, command, thread, result) ==
  LET location_match == LocationFrom(lower(command), 1)
      query  == IF location_match # None
                THEN <<"w","e","a","t","h","e","r"," ","i","n"," ">>
                       \o location_match.value
                ELSE <<"c","u","r","r","e","n","t"," ","w","e","a","t","h","e","r">>
      status == add_message(self, "JARVIS",
                            Text("Checking weather information..."), 1, FALSE)
  IN  add_jarvis_response(search_web(status, query, thread),
                          TextAbout(result, query))

\* handle_search_command without "if not query"
handle_search_command_Unchecked(self, query) ==
  StartThread(
    add_message(self, "JARVIS",
                TextAbout("Searching for information about", query), 1, FALSE),
    "search_thread", query)

handle_search_command(self, query) ==
  IF Len(query) = 0
  THEN add_jarvis_response(self,
         Text("I'm not sure what you'd like me to search for, sir."))
  ELSE StartThread(
         add_message(self, "JARVIS",
                     TextAbout("Searching for information about", query),
                     1, FALSE),
         "search_thread", query)

handle_open_website(self, site) ==
  IF Len(site) = 0
  THEN add_jarvis_response(self,
         Text("I'm not sure which website you'd like me to open, sir."))
  ELSE LET done == open_website(self, site)
       IN  add_jarvis_response(done.self, done.result)

handle_greeting(self) == add_jarvis_response(self, Text("How may I assist you"))

handle_thanks(self) == add_jarvis_response(self, Text("You're most welcome, sir."))

handle_status_query(self) ==
  add_jarvis_response(self, Text("All systems are functioning optimally, sir."))

\* the transcript is deleted by the thread that called the handler
handle_clear_screen(self, thread) ==
  add_jarvis_response(
    [self EXCEPT !.chat_area = <<>>, !.mutators = @ \cup {thread}],
    Text("Display cleared, sir."))

handle_ai_query(self, query) ==
  StartThread(
    update_voice_indicator(
      add_message(self, "JARVIS", Text("Processing your query with AI..."),
                  1, TRUE),
      "processing"),
    "ai_thread", query)

handle_general_query(self, query) ==
  IF self.ollama THEN handle_ai_query(self, query)
  ELSE add_jarvis_response(self,
         Text("I understand you're asking about that topic, sir."))

\* one handler call of process_command, made on a thread; result is what
\* a search made inside the call returns
Perform(self, invoked, thread, result) ==
  LET handler == invoked.handler
      args    == invoked.args
  IN  CASE handler = "handle_time_command"    -> handle_time_command(self)
        [] handler = "handle_date_command"    -> handle_date_command(self)
        [] handler = "handle_weather_command" ->
             handle_weather_command(self, args[1], thread, result)
        [] handler = "handle_search_command"  ->
             handle_search_command(self, args[1])
        [] handler = "handle_open_website"    ->
             handle_open_website(self, args[1])
        [] handler = "handle_greeting"        -> handle_greeting(self)
        [] handler = "handle_thanks"          -> handle_thanks(self)
        [] handler = "handle_status_query"    -> handle_status_query(self)
        [] handler = "handle_clear_screen"    ->
             handle_clear_screen(self, thread)
        [] OTHER -> handle_general_query(self, args[1])

RECURSIVE PerformAll(_, _, _, _)
PerformAll(self, calls, thread, result) ==
  IF Len(calls) = 0 THEN self
  ELSE PerformAll(Perform(self, calls[1], thread, result), Tail(calls),
                  thread, result)

\* self.process_command(command) with its handlers' effects on the assistant
ProcessCommandOn(self, table, command, thread, result) ==
  PerformAll(self, process_command(table, command), thread, result)

\* what the user typed or said, as a message
Said(text) == [text |-> "", about |-> text, of |-> 0]

\* handle_text_input with interrupt_speech=False: text is the content of the
\* entry field
handle_text_input(self, table, entry, result) ==
  LET text == strip(entry)
  IN  IF Len(text) = 0 THEN self
      ELSE ProcessCommandOn(
             save_conversation(add_message(self, "YOU", Said(text), 2, FALSE),
                               "YOU", Said(text), "text"),
             table, text, UI, result)

process_voice_input(self, table, text, result) ==
  ProcessCommandOn(
    update_voice_indicator(
      save_conversation(
        add_message(self, "YOU (Voice)", Said(text), 2, FALSE),
        "YOU", Said(text), "voice"),
      "processing"),
    table, text, UI, result)

\* the order of PriorityQueue: tuples compare by priority, then by timestamp;
\* timestamps differ, so the later fields never decide
Before(a, b) ==
  \/ a.priority < b.priority
  \/ a.priority = b.priority /\ a.timestamp < b.timestamp

\* the entries of the queue in the order get_nowait() returns them: the
\* entry with r - 1 entries before it is the r-th
InGetOrder(queue) ==
  [r \in 1..Len(queue) |->
     queue[CHOOSE k \in 1..Len(queue) :
             Cardinality({j \in 1..Len(queue) : Before(queue[j], queue[k])})
               = r - 1]]

\* what process_message_queue inserts for an entry
Inserted(e) ==
  [timestamp |-> e.timestamp, sender |-> e.sender, message |-> e.message]

\* the loop of process_message_queue run by a thread: every queued entry is
\* inserted at the end of chat_area
process_message_queue(self, thread) ==
  IF Len(self.message_queue) = 0 THEN self
  ELSE [self EXCEPT
          !.chat_area = @ \o [r \in 1..Len(self.message_queue) |->
                                Inserted(InGetOrder(self.message_queue)[r])],
          !.message_queue = <<>>,
          !.mutators = @ \cup {thread}]

start_listening(self) ==
  StartThread(
    add_message(
      update_voice_indicator([self EXCEPT !.is_listening = TRUE], "listening"),
      "SYSTEM", Text("Listening for your command..."), 1, FALSE),
    "enhanced_listen_thread", <<>>)

\* stop_listening; sessions_stopped keeps the number of the last thread
\* started before it ran
stop_listening(self) ==
  add_message(
    update_voice_indicator(
      [self EXCEPT !.is_listening = FALSE, !.sessions_stopped = self.spawned],
      "idle"),
    "SYSTEM", Text("Stopped listening"), 1, FALSE)

\* stop_all_audio: the Escape key or the stop button
stop_all_audio(self) ==
  add_message(stop_speaking(stop_listening(self)),
              "SYSTEM", Text("All audio operations stopped"), 1, FALSE)

\* toggle_listening with the speech recognizer available
toggle_listening(self) ==
  IF self.is_listening THEN stop_listening(self) ELSE start_listening(self)

\* root.after(0, callback) for each of the callbacks, in order
After(self, callbacks) == [self EXCEPT !.after = @ \o callbacks]

\* a callback posted by the thread numbered by; its argument is a message,
\* and a state of the indicator or a text heard is the message's text or
\* what the message is about
CallbackBy(fn, arg, by) == [fn |-> fn, arg |-> arg, by |-> by]

Callback(fn, arg) == CallbackBy(fn, arg, 0)

\* a callback of root.after run by the main loop
RunCallbackOn(self, table, callback, result) ==
  CASE callback.fn = "add_jarvis_response" ->
         add_jarvis_response(self, callback.arg)
    [] callback.fn = "update_voice_indicator" ->
         update_voice_indicator(self, callback.arg.text)
    [] callback.fn = "process_voice_input" ->
         process_voice_input(
           [self EXCEPT !.voiced = @ \cup
              {[text |-> callback.arg.about, session |-> callback.by,
                stopped |-> callback.by <= self.sessions_stopped]}],
           table, callback.arg.about, result)
    [] callback.fn = "stop_listening" -> stop_listening(self)
    [] callback.fn = "add_message" ->
         add_message(self, "SYSTEM", callback.arg, 1, FALSE)

\* initialize_system: the microphone messages when the recognizer is
\* available (test passed, calibrated), then welcome_message
initialize_system(self, recognizer) ==
  LET tested ==
        IF recognizer
        THEN add_message(
               add_message(self, "SYSTEM", Text("Microphone test passed."),
                           1, FALSE),
               "SYSTEM", Text("Microphone calibrated successfully."), 1, FALSE)
        ELSE self
      welcome == Text("JARVIS Enhanced systems are now online.")
  IN  speak(add_message(tested, "JARVIS", welcome, 1, FALSE), welcome)

\* the model follows the assistant through MaxCommands inputs: texts entered,
\* clicks on the microphone or the stop button, sounds heard
MaxCommands == 2

\* EnhancedJarvisAssistant.__init__; budget is the number of inputs followed
NewAssistant(tts_available, recognizer, ollama) ==
  initialize_system(
    [message_queue   |-> <<>>,
     chat_area       |-> <<>>,
     voice_indicator |-> "idle",
     is_listening    |-> FALSE,
     after           |-> <<>>,
     threads         |-> {},
     tts             |-> [available |-> tts_available, speech_queue |-> <<>>,
                          speaking |-> FALSE,
                          worker |-> [pc |-> "get", text |-> NotPlaying],
                          music |-> NotPlaying,
                          spoken |-> 0,
                          played |-> <<>>],
     ollama          |-> ollama,
     opened          |-> {},
     clock           |-> 0,
     spawned         |-> 0,
     inputs          |-> 0,
     budget          |-> MaxCommands,
     stopped         |-> NotCalled,
     sessions_stopped |-> 0,
     voiced          |-> {},
     ran             |-> {},
     mutators        |-> {},
     web_access      |-> [cache |-> <<>>, time |-> 0],
     conversation_history |-> <<>>],
    recognizer)

(***************************************************************************)
(* Utterances                                                              *)
(***************************************************************************)
\* at most MaxWords words follow the leading phrase of an utterance
MaxWords == 2

Leads ==
  { <<>>,
    JoinWith(<<W.search, W.for>>, <<" ">>),
    JoinWith(<<W.what, W.is>>, <<" ">>),
    JoinWith(<<W.tell, W.me, W.about>>, <<" ">>),
    W.define,
    W.open,
    JoinWith(<<W.go, W.to>>, <<" ">>),
    JoinWith(<<W.navigate, W.to>>, <<" ">>),
    W.hello,
    W.thanks,
    W.status,
    JoinWith(<<W.clear, W.screen>>, <<" ">>) }

Words == { W.time, W.date, W.weather, <<"g","i","t","h","u","b">> }

RECURSIVE WordLists(_)
WordLists(n) ==
  IF n = 0 THEN {<<>>}
  ELSE WordLists(n - 1) \cup
       {Append(ws, w) : ws \in {x \in WordLists(n - 1) : Len(x) = n - 1},
                        w \in Words}

\* how an utterance is typed: the separator of its words, the whitespace
\* around it, and whether it is in capitals
Plain == [sep |-> <<" ">>, before |-> <<>>, after |-> <<>>, upper |-> FALSE]

Capitals ==
  [sep |-> <<" ", " ">>, before |-> <<>>, after |-> <<"\t", " ">>,
   upper |-> TRUE]

Lines == [sep |-> <<"\n">>, before |-> <<" ">>, after |-> <<>>, upper |-> FALSE]

Styles == {Plain, Capitals, Lines}

UpperChar(c) ==
  IF \E i \in 1..26 : Lowers[i] = c
  THEN Uppers[CHOOSE i \in 1..26 : Lowers[i] = c]
  ELSE c

upper(s) == [k \in 1..Len(s) |-> UpperChar(s[k])]

Typed(lead, ws, style) ==
  LET phrase == JoinWith(IF lead = <<>> THEN ws ELSE <<lead>> \o ws, style.sep)
      cased  == IF style.upper THEN upper(phrase) ELSE phrase
  IN  style.before \o cased \o style.after

\* the utterances named in the specification
Examples ==
  { JoinWith(<<W.what, W.is, W.the, W.time>>, <<" ">>),
    JoinWith(<<W.search, W.for, W.the, <<"e","i","f","f","e","l">>,
               <<"t","o","w","e","r">> >>, <<" ">>),
    JoinWith(<<W.tell, W.me, W.about, <<"b","l","a","c","k">>,
               <<"h","o","l","e","s">> >>, <<" ">>),
    JoinWith(<<<<"x","y","z","z","y">>, <<"p","l","u","g","h">>,
               <<"q","u","u","x">> >>, <<" ">>),
    <<" ", " ", "H">> \o Tail(W.hello) \o <<" ", "T">> \o Tail(W.the)
      \o <<"r", "e", " ", " ">>,
    JoinWith(<<W.hello, W.the \o <<"r", "e">> >>, <<" ">>) }

Utterances ==
  {Typed(lead, ws, style) :
     lead \in Leads, ws \in WordLists(MaxWords), style \in Styles}
  \cup Examples

(***************************************************************************)
(* jarvis12/J.A.R.V.I.S.py: JarvisAssistant                                *)
(***************************************************************************)

\* the length conversation_history is cut back to in jarvis12
history_limit_12 == 20

\* JarvisAssistant.save_conversation: the part that keeps the entry in
\* memory
save_conversation_12(self, speaker, message) ==
  LET appended == Append(self.conversation_history,
                         [speaker |-> speaker, message |-> message])
  IN  [self EXCEPT !.conversation_history =
         IF Len(appended) > history_limit_12 THEN Tail(appended)
         ELSE appended]

\* a message of jarvis12: its fixed text and the value formatted into it,
\* a str or None
Msg(text, about) == [text |-> text, about |-> about]

\* JarvisAssistant.add_message
add_message_12(self, sender, message, thinking) ==
  [self EXCEPT !.message_queue =
     Append(@, [sender |-> sender, message |-> message,
                thinking |-> thinking])]

\* IntegratedTTS.speak: a speak_thread is started for a text that is not
\* blank
speak_12(self, text) ==
  IF (text.text = "" /\ Blank(text.about.value)) \/ ~self.tts.available
  THEN self
  ELSE [self EXCEPT !.tts.spoken = @ + 1]

\* JarvisAssistant.add_jarvis_response
add_jarvis_response_12(self, response) ==
  LET saved == save_conversation_12(
                 add_message_12(self, "JARVIS", response, FALSE),
                 "JARVIS", response)
  IN  IF saved.tts.available THEN speak_12(saved, response) ELSE saved

\* "word in cmd"
Contains(cmd, word) ==
  \E i \in 0..(Len(cmd) - Len(word)) :
    \A k \in 1..Len(word) : cmd[i + k] = word[k]

\* str.replace(old, ""): every occurrence of old, found from left to right,
\* is removed
RECURSIVE Removed(_, _)
Removed(s, old) ==
  IF Len(s) = 0 THEN <<>>
  ELSE IF startswith(s, old)
       THEN Removed(Slice(s, Len(old) + 1, Len(s)), old)
       ELSE <<s[1]>> \o Removed(Slice(s, 2, Len(s)), old)

\* the keywords of JarvisAssistant.process_command
WhatS == W.what \o <<"'", "s">>

time_commands ==
  { W.time, JoinWith(<<W.what, W.time>>, <<" ">>),
    JoinWith(<<WhatS, W.the, W.time>>, <<" ">>) }

date_commands ==
  { W.date, JoinWith(<<W.what, W.date>>, <<" ">>),
    JoinWith(<<WhatS, W.the, W.date>>, <<" ">>) }

greeting_words == {W.hello, W.hi, W.hey, W.greetings}

thanks_words == {W.thank, W.thanks, W.appreciate}

status_phrases ==
  { JoinWith(<<W.how, W.are, W.you>>, <<" ">>),
    JoinWith(<<W.how, <<"d","o">>, W.you, <<"d","o">>>>, <<" ">>) }

search_for == W.search \o <<" ">> \o W.for \o <<" ">>

look_up == W.look \o <<" ">> \o W.up \o <<" ">>

open_ == W.open \o <<" ">>

News == <<"n","e","w","s">>

LatestNews == <<"l","a","t","e","s","t"," ">> \o News

\* the responses process_command draws from
greetings ==
  << "Hello, sir. How may I assist you?",
     "Good day, sir. What can I do for you?",
     "Hello there. How may I be of service?",
     "Greetings, sir. How can I help you today?" >>

thanks_responses ==
  << "You're welcome, sir.", "Always a pleasure to assist, sir.",
     "Happy to help, sir.", "At your service, sir." >>

status_responses ==
  << "I'm functioning optimally, thank you for asking, sir.",
     "All systems are operational, sir. How may I assist you?",
     "I'm well, sir. Ready to assist with your needs.",
     "Operating at full capacity, sir. How can I help?" >>

default_responses ==
  << "How may I assist you further, sir?", "At your service, sir.",
     "I'm here to help, sir.", "What else can I do for you, sir?",
     "I didn't quite understand that, sir. Could you rephrase?",
     "I'm not sure how to help with that, sir. Perhaps try a web search?" >>

\* random.choice(responses), pick being the number drawn
random_choice(responses, pick) ==
  Msg(responses[(pick % Len(responses)) + 1], Str(<<>>))

\* WebAccess.search_web(query), called by process_command on the thread
\* that runs it
search_web_12(self, query) == [self EXCEPT !.searched = Append(@, query)]

\* JarvisAssistant.process_command; command is a str or, from a callback of
\* listen_thread, None: None.lower() raises and the call ends. result is
\* what search_web returns, pick the number random.choice draws. The ghost
\* routed keeps, for every call, the branch taken and the queries searched
process_command_12(self, command, result, pick) ==
  IF command = None THEN self
  ELSE
    LET cmd == strip(lower(command.value))
        To(route, queries) ==
          [self EXCEPT !.routed = @ \cup {[command  |-> command.value,
                                           route    |-> route,
                                           searched |-> queries]}]
    IN  IF cmd \in time_commands
        THEN add_jarvis_response_12(To("time", <<>>),
                                    Msg("The current time is", Str(<<>>)))
        ELSE IF cmd \in date_commands
        THEN add_jarvis_response_12(To("date", <<>>),
                                    Msg("Today is", Str(<<>>)))
        ELSE IF Contains(cmd, W.clear) /\ Contains(cmd, W.screen)
        THEN add_jarvis_response_12(
               [To("clear", <<>>) EXCEPT !.chat_area = <<>>],
               Msg("Display cleared, sir.", Str(<<>>)))
        ELSE IF \E word \in greeting_words : Contains(cmd, word)
        THEN add_jarvis_response_12(
               To("greeting", <<>>), random_choice(greetings, pick))
        ELSE IF \E word \in thanks_words : Contains(cmd, word)
        THEN add_jarvis_response_12(
               To("thanks", <<>>), random_choice(thanks_responses, pick))
        ELSE IF \E word \in status_phrases : Contains(cmd, word)
        THEN add_jarvis_response_12(
               To("status", <<>>), random_choice(status_responses, pick))
        ELSE IF startswith(cmd, search_for) \/ startswith(cmd, look_up)
        THEN LET query == Removed(Removed(cmd, search_for), look_up)
             IN  add_jarvis_response_12(
                   search_web_12(
                     add_message_12(
                       To("search", <<query>>), "JARVIS",
                       Msg("Searching for information about", Str(query)),
                       FALSE),
                     query),
                   Msg(result, Str(query)))
        ELSE IF startswith(cmd, open_)
        THEN LET site == Removed(cmd, open_)
             IN  add_jarvis_response_12(
                   [To("open", <<>>) EXCEPT !.opened = Append(@, site)],
                   Msg("Opening", Str(site)))
        ELSE IF Contains(cmd, W.weather)
        THEN add_jarvis_response_12(
               search_web_12(
                 add_message_12(To("weather", <<W.weather>>), "JARVIS",
                                Msg("Checking weather information...",
                                    Str(<<>>)),
                                FALSE),
                 W.weather),
               Msg(result, Str(W.weather)))
        ELSE IF Contains(cmd, News)
        THEN add_jarvis_response_12(
               search_web_12(
                 add_message_12(To("news", <<LatestNews>>), "JARVIS",
                                Msg("Checking latest news...", Str(<<>>)),
                                FALSE),
                 LatestNews),
               Msg(result, Str(LatestNews)))
        ELSE IF self.ollama
        THEN [add_message_12(To("ollama", <<>>), "JARVIS",
                             Msg("Thinking...", Str(<<>>)), TRUE)
                EXCEPT !.threads = @ \cup {[id      |-> self.spawned + 1,
                                            command |-> command.value]},
                       !.spawned = @ + 1]
        ELSE add_jarvis_response_12(To("default", <<>>),
                                    random_choice(default_responses, pick))

\* JarvisAssistant.handle_text_input; entry is the content of text_input
handle_text_input_12(self, entry, result, pick) ==
  LET text == strip(entry)
  IN  IF Len(text) = 0 THEN self
      ELSE process_command_12(
             save_conversation_12(
               add_message_12(self, "YOU", Msg("", Str(text)), FALSE),
               "YOU", Msg("", Str(text))),
             Str(text), result, pick)

\* JarvisAssistant.process_voice_input; the ghost voiced keeps the texts it
\* was called with
process_voice_input_12(self, text, result, pick) ==
  process_command_12(
    save_conversation_12(
      add_message_12([self EXCEPT !.voiced = Append(@, text)],
                     "YOU (Voice)", Msg("", text), FALSE),
      "YOU", Msg("", text)),
    text, result, pick)

\* JarvisAssistant.start_listening: a listen_thread is started; cells holds
\* the local variable text of every listen_thread, which the lambdas posted
\* by the thread refer to
start_listening_12(self) ==
  [add_message_12([self EXCEPT !.is_listening = TRUE], "SYSTEM",
                  Msg("Listening...", Str(<<>>)), FALSE)
     EXCEPT !.cells = Append(@, [pc |-> "while", text |-> None])]

\* JarvisAssistant.stop_listening
stop_listening_12(self) ==
  add_message_12([self EXCEPT !.is_listening = FALSE], "SYSTEM",
                 Msg("Stopped listening", Str(<<>>)), FALSE)

\* JarvisAssistant.toggle_listening
toggle_listening_12(self) ==
  IF ~self.recognizer
  THEN add_message_12(self, "SYSTEM",
                      Msg("Speech recognition is not available", Str(<<>>)),
                      FALSE)
  ELSE IF self.is_listening THEN stop_listening_12(self)
  ELSE start_listening_12(self)

\* a lambda posted with root.after by listen_thread number cell (0: by
\* another thread); arg is the argument it holds, and the lambda of
\* process_voice_input holds none: it reads text when it runs
Lambda(fn, arg, cell) == [fn |-> fn, arg |-> arg, cell |-> cell]

\* JarvisAssistant.welcome_message
welcome_message_12(self) ==
  LET shown == add_message_12(self, "JARVIS",
                              Msg("Good day, sir. JARVIS systems online.",
                                  Str(<<>>)),
                              FALSE)
  IN  IF shown.tts.available
      THEN speak_12(shown, Msg("Good day, sir. JARVIS systems online.",
                               Str(<<>>)))
      ELSE shown

\* JarvisAssistant.__init__; recognizer and ollama tell whether speech
\* recognition and the local model are available
NewJarvis12(recognizer, ollama) ==
  welcome_message_12(
    [conversation_history |-> <<>>,
     is_listening         |-> FALSE,
     recognizer           |-> recognizer,
     ollama               |-> ollama,
     tts                  |-> [available |-> TRUE, spoken |-> 0],
     message_queue        |-> <<>>,
     chat_area            |-> <<>>,
     after                |-> <<>>,
     cells                |-> <<>>,
     threads              |-> {},
     spawned              |-> 0,
     searched             |-> <<>>,
     opened               |-> <<>>,
     heard                |-> <<>>,
     voiced               |-> <<>>,
     routed               |-> {},
     inputs               |-> 0])

(***************************************************************************)
(* The processor and its caller                                            *)
(***************************************************************************)
VARIABLES
  compiled_patterns,  \* SmartCommandProcessor.compiled_patterns
  command,            \* the utterance the caller holds
  pc,                 \* "ready": the caller is between calls; "returned"
  call,               \* the last call: its name and arguments
  ret,                \* what the last call returned
  first,              \* what the first classify_command(command) to have
                      \* returned gave
  assistant,          \* the EnhancedJarvisAssistant
  frames,             \* per calling thread, the call of the processor it is
                      \* in: its arguments, its locals and its position
  jarvis12            \* the JarvisAssistant of jarvis12/J.A.R.V.I.S.py

vars ==
  <<compiled_patterns, command, pc, call, ret, first, assistant, frames,
    jarvis12>>

\* the threads that call the processor at the same time
Callers == {"ui", "listen"}

\* no thread is inside a call
NoFrames == [t \in Callers |-> NotCalled]

normalized(text) == lower(strip(text))

Init ==
  /\ compiled_patterns = Compile(command_patterns)
  /\ command \in Utterances
  /\ pc = "ready"
  /\ call = NotCalled
  /\ ret = NotCalled
  /\ first = NotCalled
  /\ assistant = NewAssistant(FALSE, FALSE, FALSE)
  /\ frames = NoFrames
  /\ jarvis12 = NewJarvis12(FALSE, FALSE)

\* classify_command that re-inserts the entry of the command it matched, as
\* d[k] = d.pop(k) does: the entry moves to the end of the dict
ClassifyCommandReinserting(text) ==
  LET result == classify_command(compiled_patterns, text)
      Hit(e) == e.command = result.command
  IN  /\ pc = "ready"
      /\ call' = [op |-> "classify_command", text |-> text]
      /\ ret' = result
      /\ compiled_patterns' =
           SelectSeq(compiled_patterns, LAMBDA e : ~Hit(e))
             \o SelectSeq(compiled_patterns, Hit)
      /\ pc' = "returned"
      /\ UNCHANGED <<command, first, assistant, frames, jarvis12>>

\* result = self.command_processor.classify_command(text)
ClassifyCommand(text) ==
  /\ pc = "ready"
  /\ call' = [op |-> "classify_command", text |-> text]
  /\ ret' = classify_command(compiled_patterns, text)
  /\ pc' = "returned"
  /\ UNCHANGED <<compiled_patterns, command, first, assistant, frames, jarvis12>>

\* query = self.command_processor.extract_search_query(text, groups)
ExtractSearchQuery(text, groups) ==
  /\ pc = "ready"
  /\ call' = [op |-> "extract_search_query", text |-> text, groups |-> groups]
  /\ ret' = extract_search_query(text, groups)
  /\ pc' = "returned"
  /\ UNCHANGED <<compiled_patterns, command, first, assistant, frames, jarvis12>>

\* self.process_command(command)
ProcessCommand ==
  /\ pc = "ready"
  /\ call' = [op |-> "process_command", text |-> command]
  /\ ret' = process_command(compiled_patterns, command)
  /\ pc' = "returned"
  /\ UNCHANGED <<compiled_patterns, command, first, assistant, frames, jarvis12>>

\* the caller has taken the returned value and goes on
Return ==
  /\ pc = "returned"
  /\ pc' = "ready"
  /\ call' = NotCalled
  /\ ret' = NotCalled
  /\ first' = IF /\ first = NotCalled
                 /\ call.op = "classify_command"
                 /\ call.text = command
              THEN ret ELSE first
  /\ UNCHANGED <<compiled_patterns, command, assistant, frames, jarvis12>>

\* the payloads a caller can hand to extract_search_query
Payloads ==
  {None, Tuple(<<>>)} \cup (IF first = NotCalled THEN {} ELSE {first.payload})

Next ==
  \/ \E text \in {command, normalized(command)} : ClassifyCommand(text)
  \/ \E groups \in Payloads : ExtractSearchQuery(command, groups)
  \/ ProcessCommand
  \/ Return

Spec == Init /\ [][Next]_vars

(***************************************************************************)
(* The assistant: the main loop and the worker threads                     *)
(*                                                                         *)
(* The main loop runs one callback at a time: a key or button event, a     *)
(* callback of root.after, or the timer of process_message_queue.  A       *)
(* worker thread takes one step per blocking call it makes; the            *)
(* root.after calls that follow the blocking call belong to the step.      *)
(***************************************************************************)
GithubSite == <<"g","i","t","h","u","b">>

\* the commands the user speaks
Spoken ==
  { JoinWith(<<W.search, W.for, GithubSite>>, <<" ">>),
    JoinWith(<<W.clear, W.screen>>, <<" ">>),
    GithubSite }

\* what the user types into the entry field
Entries ==
  Spoken \cup {W.time, W.weather, JoinWith(<<W.open, GithubSite>>, <<" ">>),
               <<" ">>}

\* what speech_recognizer.listen returns: None after a timeout, "" for
\* speech it did not understand, or the text
Heard == {None, Str(<<>>)} \cup {Str(text) : text \in Spoken}

\* what ollama.chat does: it answers or it raises
ChatOutcomes ==
  {"answer", "I encountered an error while processing your query, sir"}

Processor ==
  <<compiled_patterns, command, pc, call, ret, first, frames, jarvis12>>

\* the Return key or the send button
HandleTextInput(entry, result) ==
  /\ assistant.inputs < assistant.budget
  /\ assistant' = handle_text_input([assistant EXCEPT !.inputs = @ + 1],
                                    compiled_patterns, entry, result)
  /\ UNCHANGED Processor

\* the timer of process_message_queue fires with entries in the queue
ProcessMessageQueue ==
  /\ Len(assistant.message_queue) > 0
  /\ assistant' = process_message_queue(assistant, UI)
  /\ UNCHANGED Processor

\* the main loop runs the oldest callback of root.after
RunCallback(result) ==
  /\ Len(assistant.after) > 0
  /\ assistant' = RunCallbackOn([assistant EXCEPT !.after = Tail(@)],
                                compiled_patterns, Head(assistant.after),
                                result)
  /\ UNCHANGED Processor

\* search_thread that calls add_jarvis_response itself and then runs the
\* loop of process_message_queue, without root.after
SearchThreadUpdatingDisplay(t, result) ==
  /\ t \in assistant.threads
  /\ t.target = "search_thread"
  /\ assistant' =
       process_message_queue(
         add_jarvis_response(
           search_web([assistant EXCEPT !.threads = @ \ {t}], t.arg, t.target),
           [text |-> result, about |-> t.arg, of |-> t.id]),
         t.target)
  /\ UNCHANGED Processor

\* search_thread of handle_search_command: the search, then root.after
SearchThread(t, result) ==
  /\ t \in assistant.threads
  /\ t.target = "search_thread"
  /\ assistant' =
       After(search_web([assistant EXCEPT !.threads = @ \ {t}], t.arg, t.target),
             <<Callback("add_jarvis_response",
                        [text |-> result, about |-> t.arg, of |-> t.id])>>)
  /\ UNCHANGED Processor

\* ai_thread without its except clause: a chat that raises ends the thread
AiThreadUncaught(t, outcome) ==
  /\ t \in assistant.threads
  /\ t.target = "ai_thread"
  /\ assistant' =
       LET chatted ==
             [assistant EXCEPT
                !.threads = @ \ {t},
                !.ran = @ \cup {[op |-> "ollama.chat", about |-> t.arg,
                                 thread |-> t.target]}]
       IN  IF outcome = "answer"
           THEN After(chatted,
                      <<Callback("add_jarvis_response",
                                 [text |-> outcome, about |-> t.arg,
                                  of |-> t.id]),
                        Callback("update_voice_indicator", Text("idle"))>>)
           ELSE chatted
  /\ UNCHANGED Processor

\* ai_thread of handle_ai_query: the chat, then root.after twice, in the try
\* block or in the except clause
AiThread(t, outcome) ==
  /\ t \in assistant.threads
  /\ t.target = "ai_thread"
  /\ assistant' =
       After([assistant EXCEPT
                !.threads = @ \ {t},
                !.ran = @ \cup {[op |-> "ollama.chat", about |-> t.arg,
                                 thread |-> t.target]}],
             <<Callback("add_jarvis_response",
                        [text |-> outcome, about |-> t.arg, of |-> t.id]),
               Callback("update_voice_indicator", Text("idle"))>>)
  /\ UNCHANGED Processor

\* the microphone button
ToggleListening ==
  /\ assistant.inputs < assistant.budget
  /\ assistant' = toggle_listening([assistant EXCEPT !.inputs = @ + 1])
  /\ UNCHANGED Processor

\* enhanced_listen_thread at "while self.is_listening"
ListenThreadLoop(t) ==
  /\ t \in assistant.threads
  /\ t.target = "enhanced_listen_thread"
  /\ t.pc = "started"
  /\ assistant' =
       IF assistant.is_listening
       THEN After([assistant EXCEPT
                     !.threads = (@ \ {t}) \cup {[t EXCEPT !.pc = "listening"]}],
                  <<Callback("update_voice_indicator", Text("processing"))>>)
       ELSE [assistant EXCEPT !.threads = @ \ {t}]
  /\ UNCHANGED Processor

\* a listen thread that goes on listening after a recognized text, as the
\* loop of jarvis12 does: no stop_listening posted, no break
ListenThreadHeard_Continuous(t, heard) ==
  /\ t \in assistant.threads
  /\ t.target = "enhanced_listen_thread"
  /\ t.pc = "listening"
  /\ assistant.inputs < assistant.budget
  /\ assistant' =
       LET counted  == [assistant EXCEPT !.inputs = @ + 1]
           finished == [counted EXCEPT !.threads = @ \ {t}]
           again    == [counted EXCEPT
                          !.threads = (@ \ {t}) \cup {[t EXCEPT !.pc = "started"]}]
       IN  IF ~assistant.is_listening THEN finished
           ELSE IF heard = None THEN again
           ELSE After(again,
                      <<CallbackBy("process_voice_input",
                                   Said(heard.value), t.id)>>)
  /\ UNCHANGED Processor

\* enhanced_listen_thread when speech_recognizer.listen returns
ListenThreadHeard(t, heard) ==
  /\ t \in assistant.threads
  /\ t.target = "enhanced_listen_thread"
  /\ t.pc = "listening"
  /\ assistant.inputs < assistant.budget
  /\ assistant' =
       LET counted  == [assistant EXCEPT !.inputs = @ + 1]
           finished == [counted EXCEPT !.threads = @ \ {t}]
           again    == [counted EXCEPT
                          !.threads = (@ \ {t}) \cup {[t EXCEPT !.pc = "started"]}]
       IN  IF ~assistant.is_listening THEN finished
           ELSE IF heard = None
             THEN After(again,
                        <<Callback("update_voice_indicator", Text("listening"))>>)
           ELSE IF Len(heard.value) = 0
             THEN After(again,
                        <<Callback("add_message",
                                   Text("I heard something but couldn't understand it.")),
                          Callback("update_voice_indicator", Text("listening"))>>)
           ELSE After(finished,
                      <<CallbackBy("process_voice_input",
                                   Said(heard.value), t.id),
                        Callback("stop_listening", Text(""))>>)
  /\ UNCHANGED Processor

\* enhanced_listen_thread when a call in its try block raises
ListenThreadRaised(t) ==
  /\ t \in assistant.threads
  /\ t.target = "enhanced_listen_thread"
  /\ t.pc = "listening"
  /\ assistant.inputs < assistant.budget
  /\ assistant' =
       After([assistant EXCEPT !.inputs = @ + 1, !.threads = @ \ {t}],
             <<Callback("add_message", Text("Speech recognition error")),
               Callback("stop_listening", Text(""))>>)
  /\ UNCHANGED Processor

\* _speech_worker takes a text from speech_queue; _speak_sync sets speaking
\* and starts to synthesize the text
SpeechWorkerGet ==
  /\ assistant.tts.available
  /\ assistant.tts.worker.pc = "get"
  /\ Len(assistant.tts.speech_queue) > 0
  /\ assistant' = [assistant EXCEPT
                     !.tts.speech_queue = Tail(@),
                     !.tts.speaking = TRUE,
                     !.tts.worker = [pc |-> "synthesize",
                                     text |-> Head(assistant.tts.speech_queue)]]
  /\ UNCHANGED Processor

\* _speak_sync: tts.save has returned; pygame.mixer.music.load and play
SpeechWorkerPlay ==
  /\ assistant.tts.worker.pc = "synthesize"
  /\ assistant' = [assistant EXCEPT
                     !.tts.music = assistant.tts.worker.text,
                     !.tts.played = Append(@, assistant.tts.worker.text.call),
                     !.tts.worker.pc = "wait"]
  /\ UNCHANGED Processor

\* _speak_sync: gTTS or pygame raises; the exception is logged and finally
\* clears speaking
SpeechWorkerFailed ==
  /\ assistant.tts.worker.pc = "synthesize"
  /\ assistant' = [assistant EXCEPT
                     !.tts.speaking = FALSE,
                     !.tts.worker = [pc |-> "get", text |-> NotPlaying]]
  /\ UNCHANGED Processor

\* pygame: the music has played to its end
PlaybackEnds ==
  /\ assistant.tts.music # NotPlaying
  /\ assistant' = [assistant EXCEPT !.tts.music = NotPlaying]
  /\ UNCHANGED Processor

\* _speak_sync: "while pygame.mixer.music.get_busy() and self.speaking" is
\* left, finally clears speaking, and the worker is back at its queue
SpeechWorkerDone ==
  /\ assistant.tts.worker.pc = "wait"
  /\ assistant.tts.music = NotPlaying \/ ~assistant.tts.speaking
  /\ assistant' = [assistant EXCEPT
                     !.tts.speaking = FALSE,
                     !.tts.worker = [pc |-> "get", text |-> NotPlaying]]
  /\ UNCHANGED Processor

\* the Escape key or the stop button; stopped keeps what had been queued
\* and played when stop_all_audio returned, and what it left behind
StopAllAudio ==
  /\ assistant.inputs < assistant.budget
  /\ assistant' =
       LET after_stop == stop_all_audio([assistant EXCEPT !.inputs = @ + 1])
       IN  [after_stop EXCEPT
              !.stopped = [op |-> "stop_all_audio",
                           spoken |-> after_stop.tts.spoken,
                           played |-> Len(after_stop.tts.played),
                           is_listening |-> after_stop.is_listening,
                           speaking |-> after_stop.tts.speaking]]
  /\ UNCHANGED Processor

\* reset_indicator of add_jarvis_response finds is_speaking() false
ResetIndicator(t) ==
  /\ t \in assistant.threads
  /\ t.target = "reset_indicator"
  /\ ~assistant.tts.speaking
  /\ assistant' = After([assistant EXCEPT !.threads = @ \ {t}],
                        <<Callback("update_voice_indicator", Text("idle"))>>)
  /\ UNCHANGED Processor

\* self.handle_search_command(query), called on the main loop
HandleSearchCommand(query) ==
  /\ assistant.inputs < assistant.budget
  /\ assistant' = handle_search_command([assistant EXCEPT !.inputs = @ + 1],
                                        query)
  /\ UNCHANGED Processor

\* self.handle_open_website(site), called on the main loop
HandleOpenWebsite(site) ==
  /\ assistant.inputs < assistant.budget
  /\ assistant' = handle_open_website([assistant EXCEPT !.inputs = @ + 1], site)
  /\ UNCHANGED Processor

\* the processor as constructed, with no call in progress
ProcessorIdle ==
  /\ compiled_patterns = Compile(command_patterns)
  /\ command = <<>>
  /\ pc = "ready"
  /\ call = NotCalled
  /\ ret = NotCalled
  /\ first = NotCalled
  /\ frames = NoFrames
  /\ jarvis12 = NewJarvis12(FALSE, FALSE)

\* the assistant without voice: gtts and speech_recognition are not installed
AppInit ==
  /\ ProcessorIdle
  /\ \E ollama \in BOOLEAN : assistant = NewAssistant(FALSE, FALSE, ollama)

AppNext ==
  \/ \E entry \in Entries, result \in SearchResults :
       HandleTextInput(entry, result)
  \/ ProcessMessageQueue
  \/ \E result \in SearchResults : RunCallback(result)
  \/ \E t \in assistant.threads, result \in SearchResults :
       SearchThread(t, result)
  \/ \E t \in assistant.threads, outcome \in ChatOutcomes : AiThread(t, outcome)

AppSpec == AppInit /\ [][AppNext]_vars

\* the main loop keeps running its callbacks and timers, and every thread
\* started is scheduled
AppFairness ==
  /\ WF_vars(ProcessMessageQueue)
  /\ WF_vars(\E result \in SearchResults : RunCallback(result))
  /\ WF_vars(\E t \in assistant.threads, result \in SearchResults :
               SearchThread(t, result))
  /\ WF_vars(\E t \in assistant.threads, outcome \in ChatOutcomes :
               AiThread(t, outcome))

\* the commands that start a search thread or an AI thread, and one that
\* deletes the transcript
Queries ==
  { JoinWith(<<W.search, W.for, GithubSite>>, <<" ">>),
    GithubSite,
    JoinWith(<<W.clear, W.screen>>, <<" ">>) }

QueryNext ==
  \/ \E entry \in Queries, result \in SearchResults :
       HandleTextInput(entry, result)
  \/ ProcessMessageQueue
  \/ \E result \in SearchResults : RunCallback(result)
  \/ \E t \in assistant.threads, result \in SearchResults :
       SearchThread(t, result)
  \/ \E t \in assistant.threads, outcome \in ChatOutcomes : AiThread(t, outcome)

QuerySpec == AppInit /\ [][QueryNext]_vars

FairQuerySpec == QuerySpec /\ AppFairness

\* the arguments the two handlers are called with
Arguments == {<<>>, <<" ">>, GithubSite}

HandlerInit ==
  /\ ProcessorIdle
  /\ assistant = NewAssistant(FALSE, FALSE, FALSE)

HandlerNext ==
  \/ \E query \in Arguments : HandleSearchCommand(query)
  \/ \E site \in Arguments : HandleOpenWebsite(site)
  \/ ProcessMessageQueue
  \/ \E result \in SearchResults : RunCallback(result)
  \/ \E t \in assistant.threads, result \in SearchResults :
       SearchThread(t, result)

HandlerSpec == HandlerInit /\ [][HandlerNext]_vars

\* the assistant with voice: every module is installed, and the commands are
\* spoken
VoiceInit ==
  /\ ProcessorIdle
  /\ assistant = NewAssistant(TRUE, TRUE, TRUE)

VoiceNext ==
  \/ ProcessMessageQueue
  \/ \E result \in SearchResults : RunCallback(result)
  \/ \E t \in assistant.threads, result \in SearchResults :
       SearchThread(t, result)
  \/ \E t \in assistant.threads, outcome \in ChatOutcomes : AiThread(t, outcome)
  \/ ToggleListening
  \/ \E t \in assistant.threads : ListenThreadLoop(t)
  \/ \E t \in assistant.threads, heard \in Heard : ListenThreadHeard(t, heard)
  \/ \E t \in assistant.threads : ListenThreadRaised(t)
  \/ SpeechWorkerGet
  \/ SpeechWorkerPlay
  \/ SpeechWorkerFailed
  \/ PlaybackEnds
  \/ SpeechWorkerDone
  \/ \E t \in assistant.threads : ResetIndicator(t)

VoiceSpec == VoiceInit /\ [][VoiceNext]_vars

(***************************************************************************)
(* Properties of classify_command                                          *)
(***************************************************************************)
\* the commands in the order of their declaration, and the fallback
IntentOrder ==
  <<"time", "date", "weather", "search", "open_website", "greeting",
    "thanks", "status", "clear">>

Intents == {IntentOrder[k] : k \in 1..Len(IntentOrder)} \cup {"general"}

\* classify_command has returned to the caller
Classified == pc = "returned" /\ call.op = "classify_command"

\* the patterns the processor holds for a command
PatternsOf(intent) ==
  LET i == CHOOSE i \in 1..Len(compiled_patterns) :
             compiled_patterns[i].command = intent
  IN  compiled_patterns[i].patterns

\* the patterns of a command that match text, by their place in its list
MatchingPatterns(intent, text) ==
  LET patterns == PatternsOf(intent)
  IN  {j \in 1..Len(patterns) : search(patterns[j], text).matched}

\* a pattern of the k-th command of IntentOrder matches text
IntentMatches(k, text) ==
  LET patterns == PatternsOf(IntentOrder[k])
  IN  \E j \in 1..Len(patterns) : search(patterns[j], text).matched

\* the commands with a pattern that matches text, by their place in IntentOrder
MatchingIntents(text) ==
  {k \in 1..Len(IntentOrder) : IntentMatches(k, text)}

Least(S) == CHOOSE k \in S : \A j \in S : k <= j

\* the place of a command in IntentOrder
PlaceOf(intent) == CHOOSE k \in 1..Len(IntentOrder) : IntentOrder[k] = intent

WhatIsTheTime == JoinWith(<<W.what, W.is, W.the, W.time>>, <<" ">>)

\* C1: classify_command returns, for every string, one (intent, payload) pair
\* whose intent is one of the ten intents
Totality ==
  Classified =>
    /\ DOMAIN ret = {"command", "payload"}
    /\ ret.command \in Intents
    /\ ret.payload.type \in {"NoneType", "tuple", "str"}

\* C1 witness: the empty string was classified
TotalityWitness ==
  Classified /\ call.text = <<>> /\ ret.command = "general"

\* C2: the intent returned is the first, in the order time, date, weather,
\* search, open_website, greeting, thanks, status, clear, with a pattern that
\* matches, and the payload comes from the first such pattern in its list; so
\* "what is the time" is time
FirstMatchWins ==
  Classified =>
    LET text == normalized(call.text)
    IN  /\ IF ret.command = "general"
           THEN \A k \in 1..Len(IntentOrder) : ~IntentMatches(k, text)
           ELSE LET matching == MatchingPatterns(ret.command, text)
                    m == search(PatternsOf(ret.command)[Least(matching)], text)
                IN  /\ \A k \in 1..(PlaceOf(ret.command) - 1) :
                         ~IntentMatches(k, text)
                    /\ matching # {}
                    /\ ret.payload =
                         IF Len(m.groups) > 0 THEN Tuple(m.groups) ELSE None
        /\ call.text = WhatIsTheTime => ret.command = "time"

\* C2 witness: "what is the time", which a time and a search pattern match,
\* was classified as time
FirstMatchWinsWitness ==
  /\ Classified
  /\ call.text = WhatIsTheTime
  /\ IntentMatches(PlaceOf("time"), call.text)
  /\ IntentMatches(PlaceOf("search"), call.text)
  /\ ret.command = "time"

\* text is "search for " followed by a non-empty X
IsSearchFor(text) ==
  /\ startswith(text, JoinWith(<<W.search, W.for>>, <<" ">>) \o <<" ">>)
  /\ Len(text) > Len(W.search) + Len(W.for) + 2

\* C3 as claimed: every utterance that starts with "search for " followed by
\* a non-empty X is classified as search, whatever words X contains
SearchForAlwaysSearch ==
  Classified /\ IsSearchFor(normalized(call.text)) => ret.command = "search"

\* C3 as amended: an utterance that starts with "search for " followed by a
\* non-empty X is classified as time, date or weather, whichever comes first,
\* when a pattern of these matches it, and as search only when none does
SearchForAfterKeywords ==
  Classified /\ IsSearchFor(normalized(call.text)) =>
    LET earlier == {k \in 1..(PlaceOf("search") - 1) :
                      IntentMatches(k, normalized(call.text))}
    IN  ret.command = IF earlier = {} THEN "search"
                      ELSE IntentOrder[Least(earlier)]

\* C3 witness: "search for weather" was classified as weather
SearchForAfterKeywordsWitness ==
  /\ Classified
  /\ call.text = JoinWith(<<W.search, W.for, W.weather>>, <<" ">>)
  /\ ret.command = "weather"

\* C4: when no pattern matches, the result is general with the trimmed,
\* lower-cased utterance as payload; the empty string gives general and ""
FallbackPath ==
  Classified =>
    LET text == normalized(call.text)
    IN  /\ \/ ret = [command |-> "general", payload |-> Str(text)]
           \/ \E k \in 1..Len(IntentOrder) : IntentMatches(k, text)
        /\ call.text = <<>> =>
             ret = [command |-> "general", payload |-> Str(<<>>)]

XyzzyPlughQuux ==
  JoinWith(<<<<"x","y","z","z","y">>, <<"p","l","u","g","h">>,
             <<"q","u","u","x">> >>, <<" ">>)

\* C4 witness: "xyzzy plugh quux" fell through to general
FallbackPathWitness ==
  /\ Classified
  /\ call.text = XyzzyPlughQuux
  /\ ret = [command |-> "general", payload |-> Str(XyzzyPlughQuux)]

(***************************************************************************)
(* Properties of extract_search_query and of the dispatch                  *)
(***************************************************************************)
\* extract_search_query has returned to the caller
Extracted == pc = "returned" /\ call.op = "extract_search_query"

\* process_command has returned to the caller
Processed == pc = "returned" /\ call.op = "process_command"

TheEiffelTower ==
  JoinWith(<<W.the, <<"e","i","f","f","e","l">>, <<"t","o","w","e","r">> >>,
           <<" ">>)

SearchForTheEiffelTower ==
  JoinWith(<<W.search, W.for, TheEiffelTower>>, <<" ">>)

\* C5: for an utterance classified as search, extract_search_query on the
\* returned payload gives the last captured group, trimmed, and this is the
\* query handed to handle_search_command; "search for the eiffel tower" is
\* search with the query "the eiffel tower"
CaptureExtraction ==
  first # NotCalled /\ first.command = "search" =>
    LET groups == first.payload.value
    IN  /\ first.payload.type = "tuple"
        /\ Extracted /\ call.groups = first.payload =>
             ret = strip(groups[Len(groups)])
        /\ Processed =>
             ret = <<Invoke("handle_search_command",
                            <<strip(groups[Len(groups)])>>)>>
        /\ command = SearchForTheEiffelTower =>
             /\ groups[Len(groups)] = TheEiffelTower
             /\ Extracted /\ call.groups = first.payload => ret = TheEiffelTower

\* C5 witness: the query of "search for the eiffel tower" was extracted from
\* the payload classify_command returned for it
CaptureExtractionWitness ==
  /\ command = SearchForTheEiffelTower
  /\ first # NotCalled
  /\ first.command = "search"
  /\ Extracted
  /\ call.groups = first.payload
  /\ ret = TheEiffelTower

BlackHoles == JoinWith(<<<<"b","l","a","c","k">>, <<"h","o","l","e","s">> >>, <<" ">>)

TellMeAboutBlackHoles == JoinWith(<<W.tell, W.me, W.about, BlackHoles>>, <<" ">>)

\* C6: without groups, extract_search_query cuts the first listed prefix the
\* text starts with, whatever its case, and returns the rest trimmed; a text
\* that starts with no listed prefix is returned unchanged; "tell me about
\* black holes" gives "black holes"
PrefixFallback ==
  Extracted /\ ~Truthy(call.groups) =>
    LET text_lower == lower(call.text)
        hits == {k \in 1..Len(prefixes) : startswith(text_lower, prefixes[k])}
    IN  /\ hits = {} => ret = call.text
        /\ hits # {} =>
             ret = strip(Slice(call.text, Len(prefixes[Least(hits)]) + 1,
                               Len(call.text)))
        /\ call.text = TellMeAboutBlackHoles => ret = BlackHoles

\* C6 witness: "tell me about black holes" was cut to "black holes" with no
\* groups given
PrefixFallbackWitness ==
  /\ Extracted
  /\ call.text = TellMeAboutBlackHoles
  /\ call.groups = None
  /\ ret = BlackHoles

\* the phrases that ask for a website
OpenLeads ==
  {W.open, JoinWith(<<W.go, W.to>>, <<" ">>),
   JoinWith(<<W.navigate, W.to>>, <<" ">>)}

\* the X of an utterance "lead X": what follows the lead and the whitespace
\* after it
Following(text, lead) ==
  Slice(text, Len(lead) + 1 + SpaceRun(text, Len(lead) + 1), Len(text))

\* text is "lead X" with a non-empty X
IsLeadThenX(text, lead) ==
  /\ startswith(text, lead)
  /\ SpaceRun(text, Len(lead) + 1) >= 1
  /\ Len(Following(text, lead)) > 0

\* C7 as claimed: an utterance "open X", "go to X" or "navigate to X" that no
\* time, date, weather or search pattern matches is dispatched to
\* handle_open_website with the site X
OpenWebsiteRouting ==
  Processed =>
    \A lead \in OpenLeads :
      LET text == normalized(command)
      IN  /\ IsLeadThenX(text, lead)
          /\ \A k \in 1..PlaceOf("search") : ~IntentMatches(k, text)
          => ret = <<Invoke("handle_open_website", <<Following(text, lead)>>)>>

\* the first line of a text: what (.+) captures of it
FirstLine(text) == Slice(text, 1, DotRun(text, 1))

OpenGithub == JoinWith(<<W.open, <<"g","i","t","h","u","b">> >>, <<" ">>)

\* C7 as amended: such an utterance is dispatched to handle_open_website
\* with the first line of X as the site, which is X when X has no line
\* break; "open github" opens "github"
OpenWebsiteRoutingFirstLine ==
  Processed =>
    /\ \A lead \in OpenLeads :
         LET text == normalized(command)
         IN  /\ IsLeadThenX(text, lead)
             /\ \A k \in 1..PlaceOf("search") : ~IntentMatches(k, text)
             => ret = <<Invoke("handle_open_website",
                               <<FirstLine(Following(text, lead))>>)>>
    /\ command = OpenGithub =>
         ret = <<Invoke("handle_open_website", <<Following(OpenGithub, W.open)>>)>>

\* C7 witness: "open github" was dispatched to handle_open_website with the
\* site "github"
OpenWebsiteRoutingWitness ==
  /\ Processed
  /\ command = OpenGithub
  /\ ret = <<Invoke("handle_open_website", <<<<"g","i","t","h","u","b">>>>)>>

HelloThere == JoinWith(<<W.hello, W.the \o <<"r", "e">> >>, <<" ">>)

\* C8: classify_command gives for the trimmed, lower-cased utterance what it
\* gives for the utterance
IdempotentNormalization ==
  Classified /\ call.text = normalized(command) /\ first # NotCalled =>
    ret = first

\* C8 witness: "  Hello There  " and then "hello there" were classified, both
\* as greeting
IdempotentNormalizationWitness ==
  /\ Classified
  /\ command # HelloThere
  /\ call.text = HelloThere
  /\ first # NotCalled
  /\ first.command = "greeting"
  /\ ret = first

\* C9: a call of classify_command with the utterance returns what the first
\* call with it returned, whatever was called in between
Determinism ==
  Classified /\ call.text = command /\ first # NotCalled => ret = first

\* C9 witness: classify_command returned for the second time for an
\* utterance that two commands match
DeterminismWitness ==
  /\ Classified
  /\ call.text = command
  /\ first # NotCalled
  /\ Cardinality(MatchingIntents(normalized(command))) >= 2
  /\ ret = first

\* the number of capture groups of a pattern
GroupCount(p) == (IF p.capture THEN 1 ELSE 0) + (IF p.rest THEN 1 ELSE 0)

\* C10: the payload is the tuple of all groups of the winning pattern when it
\* has groups, None when it has none (the bare \btime\b and \bdate\b), and a
\* str only for general
PayloadShape ==
  Classified =>
    /\ ret.payload.type = "str" <=> ret.command = "general"
    /\ ret.command # "general" =>
         LET text == normalized(call.text)
             j == Least(MatchingPatterns(ret.command, text))
             p == PatternsOf(ret.command)[j]
         IN  /\ MatchingPatterns(ret.command, text) # {}
             /\ GroupCount(p) > 0 =>
                  /\ ret.payload.type = "tuple"
                  /\ Len(ret.payload.value) = GroupCount(p)
                  /\ ret.payload.value = search(p, text).groups
             /\ GroupCount(p) = 0 => ret.payload = None
             /\ ret.payload = None =>
                  ret.command \in {"time", "date"} /\ j = 2

\* C10 witness: "what is the time", won by the bare \btime\b, has the payload
\* None
PayloadShapeWitness ==
  /\ Classified
  /\ call.text = WhatIsTheTime
  /\ ret = [command |-> "time", payload |-> None]

(***************************************************************************)
(* Properties of the argument handed to the search and website handlers    *)
(***************************************************************************)
\* s has a character that is not whitespace
NonBlank(s) == \E k \in 1..Len(s) : ~IsSpace(s[k])

DefineGithubTyped == Typed(W.define, <<<<"g","i","t","h","u","b">>>>, Capitals)

\* C11: for an utterance classified as search or open_website the argument
\* taken from the payload, by extract_search_query for search and as the
\* first group for open_website, has a character that is not whitespace, and
\* it is the argument the handler is called with
ArgumentNeverEmpty ==
  /\ Classified /\ ret.command = "search" =>
       /\ ret.payload.type = "tuple"
       /\ NonBlank(extract_search_query(call.text, ret.payload))
  /\ Classified /\ ret.command = "open_website" =>
       /\ ret.payload.type = "tuple"
       /\ NonBlank(ret.payload.value[1])
  /\ Extracted /\ first # NotCalled /\ first.command = "search"
       /\ call.groups = first.payload => NonBlank(ret)
  /\ Processed /\ first # NotCalled
       /\ first.command \in {"search", "open_website"} =>
       /\ Len(ret) = 1
       /\ ret[1].handler = IF first.command = "search"
                           THEN "handle_search_command"
                           ELSE "handle_open_website"
       /\ NonBlank(ret[1].args[1])

\* C11 witness: "DEFINE  GITHUB" followed by a tab and a space was dispatched
\* to handle_search_command with the query "github"
ArgumentNeverEmptyWitness ==
  /\ Processed
  /\ command = DefineGithubTyped
  /\ first # NotCalled
  /\ first.command = "search"
  /\ ret = <<Invoke("handle_search_command", <<<<"g","i","t","h","u","b">>>>)>>

(***************************************************************************)
(* Properties of the if/elif chain of process_command                      *)
(***************************************************************************)
\* the handler of the branch process_command has for each intent
HandlerOf ==
  [time         |-> "handle_time_command",
   date         |-> "handle_date_command",
   weather      |-> "handle_weather_command",
   search       |-> "handle_search_command",
   open_website |-> "handle_open_website",
   greeting     |-> "handle_greeting",
   thanks       |-> "handle_thanks",
   status       |-> "handle_status_query",
   clear        |-> "handle_clear_screen",
   general      |-> "handle_general_query"]

\* intent names process_command has no branch for
Unregistered == {"general", "news", "volume"}

GithubTyped == Typed(<<>>, <<<<"g","i","t","h","u","b">>>>, Capitals)

\* C13: an intent name without a branch of its own, general included, is
\* routed to handle_general_query with the command as it was passed in
UnregisteredFallsBack ==
  Processed =>
    /\ first # NotCalled /\ first.command \notin (DOMAIN HandlerOf \ {"general"})
         => ret = <<Invoke("handle_general_query", <<command>>)>>
    /\ \A name \in Unregistered :
         \A payload \in {None, Tuple(<<command>>), Str(normalized(command))} :
           Dispatch(name, payload, command)
             = <<Invoke("handle_general_query", <<command>>)>>

\* C13 witness: "GITHUB" followed by a tab and a space, classified as general,
\* was routed to handle_general_query with the text as typed
UnregisteredFallsBackWitness ==
  /\ Processed
  /\ command = GithubTyped
  /\ command # normalized(command)
  /\ first # NotCalled
  /\ first.command = "general"
  /\ ret = <<Invoke("handle_general_query", <<GithubTyped>>)>>

\* C20: process_command calls exactly one handler for every command, the
\* handler of the intent classify_command returns for it
ExactlyOneHandler ==
  Processed =>
    /\ Len(ret) = 1
    /\ ret[1].handler \in {HandlerOf[k] : k \in DOMAIN HandlerOf}
    /\ first # NotCalled => ret[1].handler = HandlerOf[first.command]

\* C20 witness: "hello there" was dispatched to handle_greeting and to nothing
\* else
ExactlyOneHandlerWitness ==
  /\ Processed
  /\ command = HelloThere
  /\ first # NotCalled
  /\ ret = <<Invoke("handle_greeting", <<>>)>>

(***************************************************************************)
(* Properties of the handlers, the threads and the transcript              *)
(***************************************************************************)
NotSureSearch == Text("I'm not sure what you'd like me to search for, sir.")

NotSureWebsite == Text("I'm not sure which website you'd like me to open, sir.")

\* the last entry put into the queue is a JARVIS response with this message,
\* and it is the only entry put by the step
PutResponse(message) ==
  /\ Len(assistant'.message_queue) = Len(assistant.message_queue) + 1
  /\ LET e == assistant'.message_queue[Len(assistant'.message_queue)]
     IN  e.sender = "JARVIS" /\ e.message = message

\* the step starts no thread, runs no search and opens no browser
NothingStarted ==
  /\ assistant'.threads = assistant.threads
  /\ assistant'.spawned = assistant.spawned
  /\ assistant'.ran = assistant.ran
  /\ assistant'.opened = assistant.opened
  /\ assistant'.after = assistant.after

\* C12: handle_search_command and handle_open_website called with an empty
\* argument put the "I'm not sure ..." response of their own and start no
\* search thread and open no browser; search_web and open_website are never
\* called with an empty argument
EmptyArgumentHandled ==
  /\ [][/\ HandleSearchCommand(<<>>) => PutResponse(NotSureSearch) /\ NothingStarted
        /\ HandleOpenWebsite(<<>>) => PutResponse(NotSureWebsite) /\ NothingStarted]_vars
  /\ [](/\ \A r \in assistant.ran : Len(r.about) > 0
        /\ \A o \in assistant.opened : Len(o.site_name) > 0
        /\ \A t \in assistant.threads :
             t.target = "search_thread" => Len(t.arg) > 0)

\* C12 witness: both handlers were called with "", both responses are in the
\* queue, and nothing was started
EmptyArgumentWitness ==
  /\ assistant.inputs = 2
  /\ \E i, j \in 1..Len(assistant.message_queue) :
       /\ assistant.message_queue[i].message = NotSureSearch
       /\ assistant.message_queue[j].message = NotSureWebsite
  /\ assistant.spawned = 0
  /\ assistant.ran = {}
  /\ assistant.opened = {}

\* C16: chat_area is inserted into and deleted from by the main loop only:
\* every step that changes it is the timer of process_message_queue or a
\* callback the main loop runs, and the steps of the listen, speech,
\* indicator, search and AI threads leave it as it is
SingleWriter ==
  /\ [](assistant.mutators \subseteq {UI})
  /\ [][assistant'.chat_area # assistant.chat_area =>
          \/ ProcessMessageQueue
          \/ \E result \in SearchResults : RunCallback(result)]_vars

\* C16 witness: the transcript shows the outcome of a search thread, a listen
\* thread and the speech worker have run, and only the main loop has written
SingleWriterWitness ==
  /\ \E k \in 1..Len(assistant.chat_area) :
       /\ assistant.chat_area[k].message.of # 0
       /\ assistant.chat_area[k].message.text \in SearchResults
  /\ \E k \in 1..Len(assistant.chat_area) :
       assistant.chat_area[k].sender = "YOU (Voice)"
  /\ Len(assistant.tts.speech_queue) = 0
  /\ assistant.mutators = {UI}

\* C17 as claimed: every web search and every AI chat runs on a worker
\* thread, never on the main loop, the search of the weather command included
WorkerThreadPerSearch ==
  \A r \in assistant.ran : r.thread # UI

\* the entries of the transcript, of the queue and of the callbacks waiting
\* that report the outcome of thread id
Shown(id) ==
  {k \in 1..Len(assistant.chat_area) : assistant.chat_area[k].message.of = id}

Queued(id) ==
  {k \in 1..Len(assistant.message_queue) :
     assistant.message_queue[k].message.of = id}

Posted(id) ==
  {k \in 1..Len(assistant.after) :
     /\ assistant.after[k].fn = "add_jarvis_response"
     /\ assistant.after[k].arg.of = id}

Running(id) ==
  {t \in assistant.threads :
     t.id = id /\ t.target \in {"search_thread", "ai_thread"}}

\* thread id has been started for a search or an AI query
Dispatched(id) ==
  \/ Running(id) # {}
  \/ Posted(id) # {}
  \/ Queued(id) # {}
  \/ Shown(id) # {}

\* the number of outcomes of thread id there are or are still to come
Outcomes(id) ==
  Cardinality(Running(id)) + Cardinality(Posted(id))
    + Cardinality(Queued(id)) + Cardinality(Shown(id))

\* the entry is a JARVIS response with a result or an error text
IsOutcome(e) ==
  /\ e.sender = "JARVIS"
  /\ e.message.text \in SearchResults \cup ChatOutcomes

\* C18: every search thread and AI thread started leads to a JARVIS response
\* in the transcript, the result or an error text, and to no second one; a
\* response is a result or an error text; and whatever the outcomes were, the
\* main loop goes on running the callbacks and showing the messages of later
\* commands
FailuresBecomeMessages ==
  /\ \A id \in 1..MaxCommands : Running(id) # {} ~> Shown(id) # {}
  /\ [](\A id \in 1..MaxCommands :
          /\ Outcomes(id) <= 1
          /\ \A k \in Shown(id) : IsOutcome(assistant.chat_area[k])
          /\ \A k \in Queued(id) : IsOutcome(assistant.message_queue[k]))
  /\ []<>(Len(assistant.after) = 0 /\ Len(assistant.message_queue) = 0)

\* C18 witness: a chat that raised and a search that failed are both in the
\* transcript as error texts, the search typed after the chat
FailuresBecomeMessagesWitness ==
  /\ \E k \in Shown(1) :
       assistant.chat_area[k].message.text
         = "I encountered an error while processing your query, sir"
  /\ \E k \in Shown(2) :
       assistant.chat_area[k].message.text
         = "I encountered a network error while searching for information."
  /\ assistant.threads = {}

\* C19 as claimed: the transcript shows the messages in the order of the
\* add_message calls: timestamps grow down the transcript, and no entry
\* waits in the queue behind a later one that is shown
TranscriptInEnqueueOrder ==
  /\ \A i, j \in 1..Len(assistant.chat_area) :
       i < j => assistant.chat_area[i].timestamp
                  < assistant.chat_area[j].timestamp
  /\ \A i \in 1..Len(assistant.chat_area) :
       \A j \in 1..Len(assistant.message_queue) :
         assistant.chat_area[i].timestamp
           < assistant.message_queue[j].timestamp

(***************************************************************************)
(* Concurrent callers of the processor                                     *)
(*                                                                         *)
(* Several threads call the one SmartCommandProcessor.  A call keeps its   *)
(* arguments and locals in the frame of its thread; a step of the loops of *)
(* classify_command is one pattern.search, and self.compiled_patterns is   *)
(* read at every step.                                                     *)
(***************************************************************************)

\* the texts the callers pass
Requests ==
  {WhatIsTheTime, SearchForTheEiffelTower, OpenGithub, XyzzyPlughQuux}

\* the groups the callers pass to extract_search_query
RequestGroups == {None, Tuple(<<TheEiffelTower \o <<" ">> >>)}

\* what the threaded steps leave alone besides the table
Shell == <<command, pc, call, ret, first, assistant, jarvis12>>

\* classify_command(text) entered with the normalized text kept on the
\* processor instead of in a local: every call in progress reads it
CallClassifyKeepingText(t, text) ==
  /\ frames[t] = NotCalled
  /\ frames' =
       [u \in Callers |->
          IF u = t
          THEN [op |-> "classify_command", arg |-> text, groups |-> None,
                text |-> lower(strip(text)), i |-> 1, j |-> 1,
                pc |-> "loop", ret |-> NotCalled]
          ELSE IF frames[u].op = "classify_command"
               THEN [frames[u] EXCEPT !.text = lower(strip(text))]
               ELSE frames[u]]
  /\ UNCHANGED <<compiled_patterns, Shell>>

\* thread t enters classify_command(text): text = text.strip().lower()
CallClassify(t, text) ==
  /\ frames[t] = NotCalled
  /\ frames' = [frames EXCEPT ![t] =
                  [op |-> "classify_command", arg |-> text, groups |-> None,
                   text |-> lower(strip(text)), i |-> 1, j |-> 1,
                   pc |-> "loop", ret |-> NotCalled]]
  /\ UNCHANGED <<compiled_patterns, Shell>>

\* what classify_command returns for a match of a pattern of entry i
Matched(table, i, match) ==
  [command |-> table[i].command,
   payload |-> IF Len(match.groups) > 0 THEN Tuple(match.groups) ELSE None]

\* a step of the loops that moves the entry it matched to the front of the
\* table, so that frequent commands are found sooner
ClassifyStepLearning(t) ==
  LET f == frames[t]
      match == search(compiled_patterns[f.i].patterns[f.j], f.text)
      Hit(e) == e.command = compiled_patterns[f.i].command
  IN  /\ f.op = "classify_command"
      /\ f.pc = "loop"
      /\ IF f.i > Len(compiled_patterns)
         THEN /\ frames' = [frames EXCEPT ![t] =
                   [f EXCEPT !.pc = "returned",
                             !.ret = [command |-> "general",
                                      payload |-> Str(f.text)]]]
              /\ UNCHANGED compiled_patterns
         ELSE IF f.j > Len(compiled_patterns[f.i].patterns)
         THEN /\ frames' = [frames EXCEPT ![t] = [f EXCEPT !.i = @ + 1, !.j = 1]]
              /\ UNCHANGED compiled_patterns
         ELSE IF match.matched
         THEN /\ frames' = [frames EXCEPT ![t] =
                   [f EXCEPT !.pc = "returned",
                             !.ret = Matched(compiled_patterns, f.i, match)]]
              /\ compiled_patterns' =
                   SelectSeq(compiled_patterns, Hit)
                     \o SelectSeq(compiled_patterns, LAMBDA e : ~Hit(e))
         ELSE /\ frames' = [frames EXCEPT ![t] = [f EXCEPT !.j = @ + 1]]
              /\ UNCHANGED compiled_patterns
      /\ UNCHANGED Shell

\* one step of the loops of classify_command in thread t: the end of the
\* outer loop, the end of an inner loop, or pattern.search(text) and what
\* follows it
ClassifyStep(t) ==
  LET f == frames[t]
      match == search(compiled_patterns[f.i].patterns[f.j], f.text)
  IN  /\ f.op = "classify_command"
      /\ f.pc = "loop"
      /\ frames' = [frames EXCEPT ![t] =
           IF f.i > Len(compiled_patterns)
           THEN [f EXCEPT !.pc = "returned",
                          !.ret = [command |-> "general",
                                   payload |-> Str(f.text)]]
           ELSE IF f.j > Len(compiled_patterns[f.i].patterns)
           THEN [f EXCEPT !.i = @ + 1, !.j = 1]
           ELSE IF match.matched
           THEN [f EXCEPT !.pc = "returned",
                          !.ret = Matched(compiled_patterns, f.i, match)]
           ELSE [f EXCEPT !.j = @ + 1]]
      /\ UNCHANGED <<compiled_patterns, Shell>>

\* thread t enters extract_search_query(text, groups)
CallExtract(t, text, groups) ==
  /\ frames[t] = NotCalled
  /\ frames' = [frames EXCEPT ![t] =
                  [op |-> "extract_search_query", arg |-> text,
                   groups |-> groups, text |-> text, i |-> 1, j |-> 1,
                   pc |-> "body", ret |-> NotCalled]]
  /\ UNCHANGED <<compiled_patterns, Shell>>

\* the body of extract_search_query in thread t: it uses its arguments and
\* its own list of prefixes
ExtractStep(t) ==
  /\ frames[t].op = "extract_search_query"
  /\ frames[t].pc = "body"
  /\ frames' = [frames EXCEPT ![t] =
                  [@ EXCEPT !.pc = "returned",
                            !.ret = extract_search_query(frames[t].arg,
                                                         frames[t].groups)]]
  /\ UNCHANGED <<compiled_patterns, Shell>>

\* thread t has taken the value returned to it
ReturnTo(t) ==
  /\ frames[t] # NotCalled
  /\ frames[t].pc = "returned"
  /\ frames' = [frames EXCEPT ![t] = NotCalled]
  /\ UNCHANGED <<compiled_patterns, Shell>>

ThreadInit ==
  /\ ProcessorIdle
  /\ assistant = NewAssistant(FALSE, FALSE, FALSE)

ThreadNext ==
  \/ \E t \in Callers, text \in Requests : CallClassify(t, text)
  \/ \E t \in Callers : ClassifyStep(t)
  \/ \E t \in Callers, text \in Requests, groups \in RequestGroups :
       CallExtract(t, text, groups)
  \/ \E t \in Callers : ExtractStep(t)
  \/ \E t \in Callers : ReturnTo(t)

ThreadSpec == ThreadInit /\ [][ThreadNext]_vars

\* thread t is inside the loops of classify_command
InLoop(t) == frames[t].op = "classify_command" /\ frames[t].pc = "loop"

\* thread t has a value returned by op
ReturnedFrom(t, op) ==
  frames[t].op = op /\ frames[t].pc = "returned"

\* C14: whatever the other threads do meanwhile, a call of classify_command
\* or extract_search_query returns what it returns when it runs alone on the
\* processor as built, and the text a classify_command in progress works on
\* is its own argument, normalized
ThreadSafeClassification ==
  \A t \in Callers :
    /\ frames[t].op = "classify_command" =>
         frames[t].text = normalized(frames[t].arg)
    /\ ReturnedFrom(t, "classify_command") =>
         frames[t].ret =
           classify_command(Compile(command_patterns), frames[t].arg)
    /\ ReturnedFrom(t, "extract_search_query") =>
         frames[t].ret = extract_search_query(frames[t].arg, frames[t].groups)

\* C14 witness: "search for the eiffel tower" was classified as search in
\* one thread while another thread was half-way through the table with
\* "what is the time"
ThreadSafeClassificationWitness ==
  /\ ReturnedFrom("ui", "classify_command")
  /\ frames["ui"].arg = SearchForTheEiffelTower
  /\ frames["ui"].ret.command = "search"
  /\ InLoop("listen")
  /\ frames["listen"].arg = WhatIsTheTime
  /\ frames["listen"].i + frames["listen"].j > 2

\* C15: the table is, at every moment, the one the constructor built from
\* command_patterns: the same commands in the same order, each with the same
\* patterns in the same order
RuleTableImmutable == compiled_patterns = Compile(command_patterns)

\* C15 witness: a classify_command that matched a pattern has returned in
\* one thread and an extract_search_query in the other
RuleTableImmutableWitness ==
  /\ ReturnedFrom("ui", "classify_command")
  /\ frames["ui"].ret.command # "general"
  /\ ReturnedFrom("listen", "extract_search_query")

(***************************************************************************)
(* extract_search_query on texts that begin like a prefix                  *)
(***************************************************************************)

\* what follows the letters of a prefix: nothing, a word, the rest of a
\* longer word ("defined github"), the rest of another word ("what island")
PrefixTails ==
  { <<>>,
    <<" ">> \o GithubSite,
    <<"d", " ">> \o GithubSite,
    <<"l", "a", "n", "d">> }

PrefixTexts ==
  {prefixes[k] \o tail : k \in 1..Len(prefixes), tail \in PrefixTails}

PrefixInit ==
  /\ compiled_patterns = Compile(command_patterns)
  /\ command \in PrefixTexts
  /\ pc = "ready"
  /\ call = NotCalled
  /\ ret = NotCalled
  /\ first = NotCalled
  /\ assistant = NewAssistant(FALSE, FALSE, FALSE)
  /\ frames = NoFrames
  /\ jarvis12 = NewJarvis12(FALSE, FALSE)

PrefixSpec == PrefixInit /\ [][Next]_vars

\* prefix k is a whole leading phrase of the text: the text starts with it
\* and goes on with whitespace or ends
LeadingPhrase(text, k) ==
  /\ startswith(lower(text), prefixes[k])
  /\ \/ Len(text) = Len(prefixes[k])
     \/ IsSpace(text[Len(prefixes[k]) + 1])

\* C21: extract_search_query without groups removes the first listed prefix
\* that is a whole leading phrase of the text and returns the rest trimmed;
\* a text of which no listed prefix is a whole leading phrase is returned
\* unchanged
PrefixAtPhraseBoundary ==
  Extracted /\ ~Truthy(call.groups) =>
    LET whole == {k \in 1..Len(prefixes) : LeadingPhrase(call.text, k)}
    IN  ret = IF whole = {} THEN call.text
              ELSE strip(Slice(call.text, Len(prefixes[Least(whole)]) + 1,
                               Len(call.text)))

(***************************************************************************)
(* EnhancedWebAccess.search_web and its cache                              *)
(*                                                                         *)
(* search_web is called by the main loop (the weather command) and by the  *)
(* search threads.  A call takes a step to look into the cache, a step for *)
(* the search when it found nothing young enough, and a step to store the  *)
(* result.  assistant.web_access.time is what time.time() returns.         *)
(***************************************************************************)

\* self.cache_timeout
cache_timeout == 300

\* the calls of search_web made
MaxSearches == 3

\* the threads that call search_web
Searchers == {UI, "search_thread"}

\* the queries searched: two of them differ in letter case only
SearchQueries == {GithubSite, <<"G">> \o Tail(GithubSite), W.weather}

\* what the searches return: an answer or an error sentence
Found ==
  {"According to", "I encountered an error while searching for information."}

\* by how many seconds time.time() moves on between two steps
Elapsed == {cache_timeout \div 2, cache_timeout}

\* the time the model stops the clock at
Horizon == cache_timeout + cache_timeout \div 2

\* cache_key = query, as it was typed
CacheKeyAsTyped(query) == query

\* cache_key = query.lower()
CacheKey(query) == lower(query)

\* self.cache[cache_key] = (result, time.time())
Put(cache, key, result, now) ==
  [k \in DOMAIN cache \cup {key} |->
     IF k = key THEN [result |-> result, timestamp |-> now] ELSE cache[k]]

\* thread t calls search_web(query) and looks into the cache: an entry
\* younger than cache_timeout is returned
CallSearchWeb(t, query) ==
  LET web == assistant.web_access
      cache_key == CacheKey(query)
      frame == [op |-> "search_web", query |-> query, pc |-> "search",
                ret |-> NotCalled, result |-> NotCalled, put |-> NotCalled,
                searched |-> 0, cache |-> web.cache, at |-> web.time]
  IN  /\ frames[t] = NotCalled
      /\ assistant.inputs < MaxSearches
      /\ frames' = [frames EXCEPT ![t] =
           IF /\ cache_key \in DOMAIN web.cache
              /\ web.time - web.cache[cache_key].timestamp < cache_timeout
           THEN [frame EXCEPT !.pc = "returned",
                              !.ret = web.cache[cache_key].result]
           ELSE frame]
      /\ assistant' = [assistant EXCEPT !.inputs = @ + 1]
      /\ UNCHANGED <<compiled_patterns, command, pc, call, ret, first, jarvis12>>

\* result = self._search_web_uncached(query) in thread t
SearchUncached(t, result) ==
  /\ frames[t] # NotCalled
  /\ frames[t].pc = "search"
  /\ frames' = [frames EXCEPT ![t] =
                  [@ EXCEPT !.pc = "store", !.result = result,
                            !.searched = @ + 1]]
  /\ UNCHANGED <<compiled_patterns, Shell>>

\* self.cache[cache_key] = (result, time.time()); return result
StoreResult(t) ==
  LET f == frames[t]
      web == assistant.web_access
  IN  /\ f # NotCalled
      /\ f.pc = "store"
      /\ assistant' = [assistant EXCEPT !.web_access.cache =
                         Put(@, CacheKey(f.query), f.result, web.time)]
      /\ frames' = [frames EXCEPT ![t] =
                      [f EXCEPT !.pc = "returned", !.ret = f.result,
                                !.put = [key |-> CacheKey(f.query),
                                         result |-> f.result,
                                         timestamp |-> web.time]]]
      /\ UNCHANGED <<compiled_patterns, command, pc, call, ret, first, jarvis12>>

\* the caller in thread t has the value search_web returned
SearchReturned(t) ==
  /\ frames[t] # NotCalled
  /\ frames[t].pc = "returned"
  /\ frames' = [frames EXCEPT ![t] = NotCalled]
  /\ UNCHANGED <<compiled_patterns, Shell>>

\* time passes
TimePasses(seconds) ==
  /\ assistant.web_access.time + seconds <= Horizon
  /\ assistant' = [assistant EXCEPT !.web_access.time = @ + seconds]
  /\ UNCHANGED Processor

CacheInit ==
  /\ compiled_patterns = Compile(command_patterns)
  /\ command = <<>>
  /\ pc = "ready"
  /\ call = NotCalled
  /\ ret = NotCalled
  /\ first = NotCalled
  /\ assistant = NewAssistant(FALSE, FALSE, FALSE)
  /\ frames = [t \in Searchers |-> NotCalled]
  /\ jarvis12 = NewJarvis12(FALSE, FALSE)

CacheNext ==
  \/ \E t \in Searchers, query \in SearchQueries : CallSearchWeb(t, query)
  \/ \E t \in Searchers, result \in Found : SearchUncached(t, result)
  \/ \E t \in Searchers : StoreResult(t)
  \/ \E t \in Searchers : SearchReturned(t)
  \/ \E seconds \in Elapsed : TimePasses(seconds)

CacheSpec == CacheInit /\ [][CacheNext]_vars

\* the cache held, when the call was made, an entry for the query in lower
\* case younger than cache_timeout
YoungEntry(f) ==
  /\ lower(f.query) \in DOMAIN f.cache
  /\ f.at - f.cache[lower(f.query)].timestamp < cache_timeout

\* C22: a call of search_web made while the cache holds an entry for
\* lower(q) younger than cache_timeout returns that entry's result, searches
\* nothing and stores nothing; any other call makes one uncached search and
\* stores its result with the time of storing under lower(q), and returns
\* it; every key of the cache is in lower case
SearchCache ==
  /\ \A t \in Searchers :
       frames[t] # NotCalled /\ frames[t].pc = "returned" =>
         LET f == frames[t]
         IN  IF YoungEntry(f)
             THEN /\ f.ret = f.cache[lower(f.query)].result
                  /\ f.searched = 0
                  /\ f.put = NotCalled
             ELSE /\ f.searched = 1
                  /\ f.put # NotCalled
                  /\ f.put.key = lower(f.query)
                  /\ f.put.result = f.ret
                  /\ f.put.timestamp >= f.at
                  /\ f.put.key \in DOMAIN assistant.web_access.cache
  /\ \A key \in DOMAIN assistant.web_access.cache :
       /\ key = lower(key)
       /\ assistant.web_access.cache[key].timestamp
            <= assistant.web_access.time

\* C22 witness: "GitHub" was answered from the entry stored for "github",
\* and an entry of the other thread's call had run out and was searched again
SearchCacheWitness ==
  /\ frames[UI] # NotCalled
  /\ frames[UI].pc = "returned"
  /\ frames[UI].query = <<"G">> \o Tail(GithubSite)
  /\ YoungEntry(frames[UI])
  /\ frames["search_thread"] # NotCalled
  /\ frames["search_thread"].pc = "returned"
  /\ lower(frames["search_thread"].query) \in
       DOMAIN frames["search_thread"].cache
  /\ ~YoungEntry(frames["search_thread"])

(***************************************************************************)
(* save_conversation called again and again                                *)
(***************************************************************************)

\* the calls of save_conversation made on each assistant
MaxSaves == 52

\* the n-th thing said: the user and JARVIS take turns
Speaker(n) == IF n % 2 = 1 THEN "YOU" ELSE "JARVIS"

Message(n) == [text |-> "", about |-> <<>>, of |-> n]

\* self.save_conversation(speaker, message, "text") in jarvis.py
SaveConversation ==
  /\ assistant.inputs < MaxSaves
  /\ assistant' =
       save_conversation([assistant EXCEPT !.inputs = @ + 1],
                         Speaker(assistant.inputs + 1),
                         Message(assistant.inputs + 1), "text")
  /\ UNCHANGED Processor

\* self.save_conversation(speaker, message) in jarvis12
SaveConversation12 ==
  /\ jarvis12.inputs < MaxSaves
  /\ jarvis12' =
       save_conversation_12([jarvis12 EXCEPT !.inputs = @ + 1],
                            Speaker(jarvis12.inputs + 1),
                            Message(jarvis12.inputs + 1))
  /\ UNCHANGED <<compiled_patterns, command, pc, call, ret, first, assistant,
                 frames>>

HistoryInit ==
  /\ ProcessorIdle
  /\ assistant = NewAssistant(FALSE, FALSE, FALSE)

HistoryNext == SaveConversation \/ SaveConversation12

HistorySpec == HistoryInit /\ [][HistoryNext]_vars

\* the history is the last entries saved, at most limit of them, oldest
\* first
LastSaved(history, saved, limit) ==
  /\ Len(history) = IF saved < limit THEN saved ELSE limit
  /\ \A k \in 1..Len(history) :
       /\ history[k].message = Message(saved - Len(history) + k)
       /\ history[k].speaker = Speaker(saved - Len(history) + k)

\* C23: after any number of save_conversation calls conversation_history
\* holds at most 50 entries in jarvis.py and 20 in jarvis12, the most
\* recently saved ones in the order they were saved
BoundedHistory ==
  /\ LastSaved(assistant.conversation_history, assistant.inputs,
               history_limit)
  /\ LastSaved(jarvis12.conversation_history, jarvis12.inputs,
               history_limit_12)

\* C23 witness: both histories have overflowed and dropped their oldest
\* entries
BoundedHistoryWitness ==
  /\ assistant.inputs > history_limit
  /\ Len(assistant.conversation_history) = history_limit
  /\ assistant.conversation_history[1].message.of = assistant.inputs - history_limit + 1
  /\ jarvis12.inputs > history_limit_12
  /\ Len(jarvis12.conversation_history) = history_limit_12
  /\ jarvis12.conversation_history[1].message.of = jarvis12.inputs - history_limit_12 + 1

(***************************************************************************)
(* Speech and listening: the speech worker, the listen threads, the        *)
(* microphone button and the stop button                                   *)
(***************************************************************************)

\* the inputs followed where the buttons are pressed
MaxPresses == 3

AudioInit ==
  /\ ProcessorIdle
  /\ assistant = [NewAssistant(TRUE, TRUE, FALSE) EXCEPT !.budget = MaxPresses]

AudioNext ==
  \/ HandleTextInput(W.time, "According to")
  \/ ProcessMessageQueue
  \/ RunCallback("According to")
  \/ ToggleListening
  \/ StopAllAudio
  \/ \E t \in assistant.threads : ListenThreadLoop(t)
  \/ \E t \in assistant.threads, heard \in {None, Str(W.time)} :
       ListenThreadHeard(t, heard)
  \/ \E t \in assistant.threads : ListenThreadRaised(t)
  \/ SpeechWorkerGet
  \/ SpeechWorkerPlay
  \/ SpeechWorkerFailed
  \/ PlaybackEnds
  \/ SpeechWorkerDone
  \/ \E t \in assistant.threads : ResetIndicator(t)

AudioSpec == AudioInit /\ [][AudioNext]_vars

\* C24: the queue holds the texts passed to speak that the worker has not
\* taken, in the order of the calls; the texts are played in the order of
\* the calls; and no text is synthesized or played while another is played
SerializedSpeech ==
  LET tts == assistant.tts
  IN  /\ \A k \in 1..Len(tts.speech_queue) :
           tts.speech_queue[k].call = tts.spoken - Len(tts.speech_queue) + k
      /\ \A j, k \in 1..Len(tts.played) : j < k => tts.played[j] < tts.played[k]
      /\ tts.music # NotPlaying =>
           /\ tts.worker.pc # "synthesize"
           /\ tts.worker.pc = "wait" => tts.worker.text = tts.music

\* C25: when stop_all_audio has returned, is_listening and speaking are
\* false, and no text passed to speak before the call is played after it
StopAllAudioSilences ==
  assistant.stopped # NotCalled =>
    /\ ~assistant.stopped.is_listening
    /\ ~assistant.stopped.speaking
    /\ \A k \in 1..Len(assistant.tts.played) :
         k > assistant.stopped.played =>
           assistant.tts.played[k] > assistant.stopped.spoken

\* the listen threads alive
Listeners == {t \in assistant.threads : t.target = "enhanced_listen_thread"}

\* C26: at most one listen thread is alive, and so at most one is inside
\* speech_recognizer.listen
AtMostOneListener ==
  /\ Cardinality(Listeners) <= 1
  /\ Cardinality({t \in Listeners : t.pc = "listening"}) <= 1

\* C27: process_voice_input never runs with a text of a listen thread that
\* was started before a stop_listening that has run
NoCommandAfterStop == \A v \in assistant.voiced : ~v.stopped

(***************************************************************************)
(* Listening without speech output: the microphone button, the listen      *)
(* threads and the main loop                                               *)
(***************************************************************************)
ListenInit ==
  /\ ProcessorIdle
  /\ assistant = [NewAssistant(FALSE, TRUE, FALSE) EXCEPT !.budget = MaxPresses]

ListenNext ==
  \/ ProcessMessageQueue
  \/ RunCallback("According to")
  \/ ToggleListening
  \/ \E t \in assistant.threads : ListenThreadLoop(t)
  \/ \E t \in assistant.threads, heard \in {None, Str(<<>>), Str(W.time)} :
       ListenThreadHeard(t, heard)
  \/ \E t \in assistant.threads : ListenThreadRaised(t)

ListenSpec == ListenInit /\ [][ListenNext]_vars

\* the main loop runs the callbacks posted with root.after
FairListenSpec == ListenSpec /\ WF_vars(RunCallback("According to"))

\* position k of the callbacks waiting holds process_voice_input posted by
\* thread number id
VoicePosted(id, k) ==
  /\ assistant.after[k].fn = "process_voice_input"
  /\ assistant.after[k].by = id

\* the texts of thread number id that process_voice_input has run with
VoiceProcessed(id) == {v \in assistant.voiced : v.session = id}

\* thread number id has a text waiting for process_voice_input
HasVoicePosted(id) ==
  \E k \in 1..Len(assistant.after) : VoicePosted(id, k)

\* C28: a listen thread that is alive has had no text of its own posted or
\* processed, and a thread has at most one; process_voice_input is posted
\* with stop_listening right behind it, and then is_listening becomes false;
\* a thread that listens while is_listening is true ends only by posting a
\* recognized text or the error message, so None and "" keep it listening
SingleCommandMode ==
  /\ [](\A id \in 1..assistant.spawned :
          /\ Cardinality(VoiceProcessed(id)) <= 1
          /\ \A j, k \in 1..Len(assistant.after) :
               VoicePosted(id, j) /\ VoicePosted(id, k) => j = k
          /\ HasVoicePosted(id) => VoiceProcessed(id) = {}
          /\ (\E t \in Listeners : t.id = id) =>
               ~HasVoicePosted(id) /\ VoiceProcessed(id) = {}
          /\ \A k \in 1..Len(assistant.after) :
               VoicePosted(id, k) =>
                 /\ k < Len(assistant.after)
                 /\ assistant.after[k + 1].fn = "stop_listening")
  /\ (\E id \in 1..assistant.spawned : HasVoicePosted(id))
       ~> ~assistant.is_listening
  /\ [][\A t \in Listeners :
          /\ t.pc = "listening"
          /\ assistant.is_listening
          /\ ~\E u \in assistant'.threads : u.id = t.id
          => /\ Len(assistant'.after) = Len(assistant.after) + 2
             /\ assistant'.after[Len(assistant'.after)].fn = "stop_listening"
             /\ assistant'.after[Len(assistant.after) + 1].fn
                  \in {"process_voice_input", "add_message"}]_vars

\* C28 witness: the thread heard something it did not understand, then
\* "time": the text was processed and is_listening is false
SingleCommandModeWitness ==
  /\ \E v \in assistant.voiced : v.text = W.time /\ ~v.stopped
  /\ ~assistant.is_listening
  /\ Listeners = {}
  /\ \E k \in 1..Len(assistant.chat_area) :
       assistant.chat_area[k].message.text
         = "I heard something but couldn't understand it."

(***************************************************************************)
(* jarvis12: the assistant with its threads                                *)
(***************************************************************************)
Others12 ==
  <<compiled_patterns, command, pc, call, ret, first, assistant, frames>>

\* what the user types into the entry field of jarvis12
Entries12 ==
  { JoinWith(<<W.search, W.for, GithubSite>>, <<" ">>),
    JoinWith(<<W.search, W.for, W.hello>>, <<" ">>),
    JoinWith(<<W.search, W.for, W.look, W.up, GithubSite>>, <<" ">>),
    JoinWith(<<W.look, W.up, W.the, W.weather>>, <<" ">>),
    JoinWith(<<W.open, GithubSite>>, <<" ">>),
    JoinWith(<<W.clear, W.screen>>, <<" ">>),
    JoinWith(<<W.how, W.are, W.you>>, <<" ">>),
    W.time, W.date, W.thanks, W.weather, News, GithubSite }

\* the numbers random.choice draws
Picks == {0, 5}

\* the Return key or the send button of jarvis12
HandleTextInput12(entry, result, pick) ==
  /\ jarvis12.inputs < MaxCommands
  /\ jarvis12' = handle_text_input_12([jarvis12 EXCEPT !.inputs = @ + 1],
                                      entry, result, pick)
  /\ UNCHANGED Others12

\* JarvisAssistant.process_message_queue, run by its timer: every message
\* waiting is shown
ProcessMessageQueue12 ==
  /\ Len(jarvis12.message_queue) > 0
  /\ jarvis12' = [jarvis12 EXCEPT
                    !.chat_area = @ \o jarvis12.message_queue,
                    !.message_queue = <<>>]
  /\ UNCHANGED Others12

\* ollama_thread: the response is posted with root.after
OllamaThread12(t) ==
  /\ t \in jarvis12.threads
  /\ jarvis12' = [jarvis12 EXCEPT
                    !.threads = @ \ {t},
                    !.after = Append(@, Lambda("add_jarvis_response",
                                               Msg("answer", Str(t.command)),
                                               0))]
  /\ UNCHANGED Others12

\* the main loop runs the lambda posted first; the lambda of
\* process_voice_input reads the variable text of its listen_thread now
RunCallback12(result, pick) ==
  /\ Len(jarvis12.after) > 0
  /\ LET callback == Head(jarvis12.after)
         rest     == [jarvis12 EXCEPT !.after = Tail(@)]
     IN  jarvis12' =
           CASE callback.fn = "process_voice_input" ->
                  process_voice_input_12(rest,
                                         jarvis12.cells[callback.cell].text,
                                         result, pick)
             [] callback.fn = "stop_listening" -> stop_listening_12(rest)
             [] callback.fn = "add_jarvis_response" ->
                  add_jarvis_response_12(rest, callback.arg)
  /\ UNCHANGED Others12

\* a click on the microphone button of jarvis12
ToggleListening12 ==
  /\ jarvis12.inputs < MaxPresses
  /\ jarvis12' = toggle_listening_12([jarvis12 EXCEPT !.inputs = @ + 1])
  /\ UNCHANGED Others12

\* listen_thread number c at "while self.is_listening"
ListenThread12While(c) ==
  /\ c \in 1..Len(jarvis12.cells)
  /\ jarvis12.cells[c].pc = "while"
  /\ jarvis12' = [jarvis12 EXCEPT
                    !.cells[c].pc =
                       IF jarvis12.is_listening THEN "listen" ELSE "done"]
  /\ UNCHANGED Others12

\* listen_thread number c when speech_recognizer.listen returns heard: text
\* is assigned, and the loop goes on after every result
ListenThread12Heard(c, heard) ==
  /\ c \in 1..Len(jarvis12.cells)
  /\ jarvis12.cells[c].pc = "listen"
  /\ jarvis12.inputs < MaxPresses
  /\ jarvis12' =
       LET assigned == [jarvis12 EXCEPT
                          !.inputs = @ + 1,
                          !.cells[c] = [pc |-> "while", text |-> heard]]
       IN  IF heard = None THEN assigned
           ELSE IF Len(heard.value) = 0
             THEN add_message_12(assigned, "SYSTEM",
                                 Msg("I didn't catch that. Please try again.",
                                     Str(<<>>)),
                                 FALSE)
           ELSE [assigned EXCEPT
                   !.heard = Append(@, [text |-> heard, cell |-> c]),
                   !.after = Append(@, Lambda("process_voice_input",
                                              Msg("", Str(<<>>)), c))]
  /\ UNCHANGED Others12

\* listen_thread number c when a call in its try block raises
ListenThread12Raised(c) ==
  /\ c \in 1..Len(jarvis12.cells)
  /\ jarvis12.cells[c].pc = "listen"
  /\ jarvis12.inputs < MaxPresses
  /\ jarvis12' = [jarvis12 EXCEPT
                    !.inputs = @ + 1,
                    !.cells[c].pc = "while",
                    !.after = Append(@, Lambda("stop_listening",
                                               Msg("", Str(<<>>)), 0))]
  /\ UNCHANGED Others12

\* the processor and the assistant of jarvis.py at rest
Jarvis12Alone ==
  /\ compiled_patterns = Compile(command_patterns)
  /\ command = <<>>
  /\ pc = "ready"
  /\ call = NotCalled
  /\ ret = NotCalled
  /\ first = NotCalled
  /\ frames = NoFrames
  /\ assistant = NewAssistant(FALSE, FALSE, FALSE)

\* what speech_recognizer.listen of jarvis12 returns
Heard12 == {None, Str(<<>>), Str(W.time), Str(W.date)}

\* jarvis12 listening: clicks on the microphone button and sounds
Listen12Init ==
  /\ Jarvis12Alone
  /\ jarvis12 = NewJarvis12(TRUE, FALSE)

Listen12Next ==
  \/ ToggleListening12
  \/ \E c \in 1..Len(jarvis12.cells) : ListenThread12While(c)
  \/ \E c \in 1..Len(jarvis12.cells), heard \in Heard12 :
       ListenThread12Heard(c, heard)
  \/ \E c \in 1..Len(jarvis12.cells) : ListenThread12Raised(c)
  \/ RunCallback12("According to", 0)
  \/ ProcessMessageQueue12

Listen12Spec == Listen12Init /\ [][Listen12Next]_vars

\* jarvis12 with commands typed
Route12Init ==
  /\ Jarvis12Alone
  /\ \E ollama \in BOOLEAN : jarvis12 = NewJarvis12(FALSE, ollama)

Route12Next ==
  \/ \E entry \in Entries12, pick \in Picks :
       HandleTextInput12(entry, "According to", pick)
  \/ \E t \in jarvis12.threads : OllamaThread12(t)
  \/ \E pick \in Picks : RunCallback12("According to", pick)
  \/ ProcessMessageQueue12

Route12Spec == Route12Init /\ [][Route12Next]_vars

\* the lambdas of process_voice_input waiting in the main loop
VoiceWaiting12 ==
  {k \in 1..Len(jarvis12.after) :
     jarvis12.after[k].fn = "process_voice_input"}

\* C29: the texts process_voice_input has been called with are the non-empty
\* texts listen returned, in the order they were heard, and every text heard
\* has been passed once or its callback is still waiting
VoiceTextDeliveredOnce ==
  /\ Len(jarvis12.voiced) + Cardinality(VoiceWaiting12) = Len(jarvis12.heard)
  /\ \A k \in 1..Len(jarvis12.voiced) :
       jarvis12.voiced[k] = jarvis12.heard[k].text

\* C30: a command of jarvis12 whose normalized form starts with "search for "
\* or "look up " takes the search branch, and the one query searched is the
\* normalized command without that leading phrase
SearchRouting12 ==
  \A r \in jarvis12.routed :
    LET cmd == strip(lower(r.command))
    IN  \A phrase \in {search_for, look_up} :
          startswith(cmd, phrase) =>
            /\ r.route = "search"
            /\ r.searched = <<Slice(cmd, Len(phrase) + 1, Len(cmd))>>

====
